---- MODULE Spec2Model ----
(***************************************************************************)
(* Model of the storefront's client core: the Cart Client and the retry    *)
(* wrapper of src/lib/cart.ts, the authenticated operations of the Product *)
(* Client of src/lib/api.ts, and the checkout page (src/unnamed/part_001). *)
(*                                                                         *)
(* An asynchronous function is cut at its awaits: one action runs the code *)
(* from the call up to the first await, one action runs the code from the  *)
(* arrival of the awaited response (or timer) up to the next await or the  *)
(* return.  The backend, the auth collaborator and the user are the        *)
(* environment: their answers are drawn with \E from bounded sets.         *)
(***************************************************************************)
EXTENDS Integers, Sequences, FiniteSets, TLC

VARIABLES
    session,        \* localStorage slot "session"
    op,             \* library function being executed ("idle" when none)
    pc,             \* its position: "idle", "body", "fetch", "sleep", "done"
    arg,            \* the quantity argument of the running call
    attempts,       \* clearCartAfterCheckout's local `attempts`
    log,            \* effects of the running call, in program order
    result,         \* how the last call ended
    route,          \* checkout page: where the router is
    mounted,        \* checkout page: the mount effect has run
    loading, isProcessing, isAuthenticating, checkoutMode,
    cart,           \* checkout page: the `cart` state
    authInfo,       \* checkout page: the login/register form
    shippingInfo,   \* checkout page: the shipping form
    pending,        \* checkout page: the handler suspended at an await
    orders,         \* order requests the page has sent to /api/orders
    pageLog,        \* checkout page: effects of the running submission
    toast           \* checkout page: title of the last toast shown

libVars  == <<op, pc, arg, attempts, log, result>>
pageVars == <<route, mounted, loading, isProcessing, isAuthenticating,
              checkoutMode, cart, authInfo, shippingInfo, pending, orders,
              pageLog, toast>>
vars == <<session, libVars, pageVars>>

(***************************************************************************)
(* Bounds of the model.                                                    *)
(***************************************************************************)
MaxItems == 2          \* longest cart list a backend response carries
MaxOrders == 2         \* order submissions followed on the checkout page

(***************************************************************************)
(* JavaScript values that cross the network boundary.  A number is an IEEE *)
(* 754 double, as in the program: the sign n (-1, 0 or 1), the mantissa m  *)
(* and the exponent x of the value n * m * 2^x.  The mantissa is a natural *)
(* number of up to 53 bits, held as a sequence of limbs (digits to the     *)
(* base 2^15, the lowest first, none for 0) because the integers of the    *)
(* model checker have 32 bits.  A normal number has its mantissa in        *)
(* [2^52, 2^53), a subnormal one has x = -1074, and 0 is n = 0 with no     *)
(* limb, so that two numbers are equal exactly when their records are.     *)
(* Every operation rounds its exact result to the nearest double, ties to  *)
(* the even mantissa.  NaN and the infinities are values of their own; the *)
(* sign of a zero is not held.                                             *)
(***************************************************************************)
Null      == [k |-> "null", n |-> 0, m |-> <<>>, x |-> 0, s |-> <<>>]
Undefined == [k |-> "undefined", n |-> 0, m |-> <<>>, x |-> 0, s |-> <<>>]
NaN       == [k |-> "nan", n |-> 0, m |-> <<>>, x |-> 0, s |-> <<>>]
Inf(sign) == [k |-> "inf", n |-> sign, m |-> <<>>, x |-> 0, s |-> <<>>]
Str(cs)   == [k |-> "str", n |-> 0, m |-> <<>>, x |-> 0, s |-> cs]
Double(sign, m, x) == [k |-> "num", n |-> sign, m |-> m, x |-> x, s |-> <<>>]
Zero      == Double(0, <<>>, 0)

Digits == <<"0", "1", "2", "3", "4", "5", "6", "7", "8", "9">>
IsDigit(c) == \E i \in 1..10 : Digits[i] = c
DigitVal(c) == (CHOOSE i \in 1..10 : Digits[i] = c) - 1
\* the WhiteSpace and LineTerminator characters of ECMAScript, which
\* parseFloat skips, trim() removes and the regular expression class \s
\* matches alike.  A character with no escape in a TLA+ string is written as
\* its code point.
WhiteSpace ==
    {" ", "\t", "\n", "\r", "\f", "U+000B", "U+00A0", "U+1680", "U+2000",
     "U+2001", "U+2002", "U+2003", "U+2004", "U+2005", "U+2006", "U+2007",
     "U+2008", "U+2009", "U+200A", "U+2028", "U+2029", "U+202F", "U+205F",
     "U+3000", "U+FEFF"}
IsSpace(c) == c \in WhiteSpace

RECURSIVE SkipSpace(_)
SkipSpace(cs) ==
    IF cs # <<>> /\ IsSpace(Head(cs)) THEN SkipSpace(Tail(cs)) ELSE cs

\* the longest prefix of decimal digits of cs, as <<digits, rest>>
RECURSIVE TakeDigits(_, _)
TakeDigits(acc, cs) ==
    IF cs # <<>> /\ IsDigit(Head(cs))
    THEN TakeDigits(Append(acc, Head(cs)), Tail(cs))
    ELSE <<acc, cs>>

RECURSIVE DigitsValue(_)
DigitsValue(ds) ==
    IF ds = <<>> THEN 0
    ELSE 10 * DigitsValue(SubSeq(ds, 1, Len(ds) - 1)) + DigitVal(ds[Len(ds)])

\* the decimal digits of n > 0
RECURSIVE DigitsOf(_)
DigitsOf(n) ==
    IF n < 10 THEN <<Digits[n + 1]>>
    ELSE Append(DigitsOf(n \div 10), Digits[(n % 10) + 1])

IsPrefix(p, cs) == Len(p) <= Len(cs) /\ SubSeq(cs, 1, Len(p)) = p

InfinityWord == <<"I", "n", "f", "i", "n", "i", "t", "y">>

RECURSIVE DropLeadingZeros(_)
DropLeadingZeros(ds) ==
    IF ds # <<>> /\ Head(ds) = "0" THEN DropLeadingZeros(Tail(ds)) ELSE ds

Abs(i) == IF i < 0 THEN -i ELSE i
SignOf(i) == IF i < 0 THEN -1 ELSE IF i = 0 THEN 0 ELSE 1
Least(i, j) == IF i <= j THEN i ELSE j
Most(i, j) == IF i >= j THEN i ELSE j
Highest(S) == CHOOSE i \in S : \A j \in S : j <= i
Half(lo, hi) == (lo + hi) \div 2

(***************************************************************************)
(* Natural numbers of any size, as sequences of limbs: the exact results   *)
(* that the operations on doubles round.  A range of limbs is worked       *)
(* through in two halves, the carry of one half going into the other; the  *)
(* test of the carry (always below the base, as a remainder is below the   *)
(* divisor) settles it before the range is split.                          *)
(***************************************************************************)
Base == 2^15
Limb(a, i) == IF i <= Len(a) THEN a[i] ELSE 0

RECURSIVE BigOf(_)
BigOf(n) == IF n = 0 THEN <<>> ELSE <<n % Base>> \o BigOf(n \div Base)

\* a without its leading limbs of 0
BigTrim(a) == SubSeq(a, 1, Highest({0} \cup {i \in 1..Len(a) : a[i] # 0}))

Carried(low, high) == <<low \o high[1], high[2]>>

\* limbs lo..hi of a + b + c, and the carry out of limb hi
RECURSIVE AddRange(_, _, _, _, _)
AddUpper(low, a, b, lo, hi) == Carried(low[1], AddRange(a, b, lo, hi, low[2]))
AddRange(a, b, lo, hi, c) ==
    IF c >= Base \/ lo = hi
    THEN << <<(Limb(a, lo) + Limb(b, lo) + c) % Base>>,
            (Limb(a, lo) + Limb(b, lo) + c) \div Base >>
    ELSE AddUpper(AddRange(a, b, lo, Half(lo, hi), c), a, b, Half(lo, hi) + 1, hi)
BigAdd(a, b) ==
    IF a = <<>> THEN b
    ELSE IF b = <<>> THEN a
    ELSE BigTrim(AddRange(a, b, 1, Most(Len(a), Len(b)) + 1, 0)[1])

\* limbs lo..hi of a - b - c for a >= b, and the borrow out of limb hi
RECURSIVE SubRange(_, _, _, _, _)
SubUpper(low, a, b, lo, hi) == Carried(low[1], SubRange(a, b, lo, hi, low[2]))
SubRange(a, b, lo, hi, c) ==
    IF c >= Base \/ lo = hi
    THEN << <<(a[lo] - Limb(b, lo) - c) % Base>>,
            IF a[lo] - Limb(b, lo) - c < 0 THEN 1 ELSE 0 >>
    ELSE SubUpper(SubRange(a, b, lo, Half(lo, hi), c), a, b, Half(lo, hi) + 1, hi)
BigSub(a, b) == IF b = <<>> THEN a ELSE BigTrim(SubRange(a, b, 1, Len(a), 0)[1])

\* limbs lo..hi of a * k + c for k below the base, and the carry out
RECURSIVE TimesRange(_, _, _, _, _)
TimesUpper(low, a, lo, hi, k) == Carried(low[1], TimesRange(a, lo, hi, k, low[2]))
TimesRange(a, lo, hi, k, c) ==
    IF c >= Base \/ lo = hi
    THEN << <<(Limb(a, lo) * k + c) % Base>>, (Limb(a, lo) * k + c) \div Base >>
    ELSE TimesUpper(TimesRange(a, lo, Half(lo, hi), k, c), a, Half(lo, hi) + 1, hi, k)
BigTimes(a, k) ==
    IF a = <<>> \/ k = 0 THEN <<>> ELSE BigTrim(TimesRange(a, 1, Len(a) + 1, k, 0)[1])

RECURSIVE BigMul(_, _)
BigMul(a, b) ==
    IF a = <<>> \/ b = <<>> THEN <<>>
    ELSE BigAdd(BigTimes(a, Head(b)),
                IF Tail(b) = <<>> THEN <<>> ELSE <<0>> \o BigMul(a, Tail(b)))

\* limbs lo..hi of the quotient of a by k below the base, from the top
\* down, r the remainder coming in from above, and the remainder going out
RECURSIVE DivRange(_, _, _, _, _)
DivJoin(low, high) == <<low[1] \o high, low[2]>>
DivLower(high, a, lo, hi, k) == DivJoin(DivRange(a, lo, hi, k, high[2]), high[1])
DivRange(a, lo, hi, k, r) ==
    IF r >= k \/ lo = hi
    THEN << <<(r * Base + a[lo]) \div k>>, (r * Base + a[lo]) % k >>
    ELSE DivLower(DivRange(a, Half(lo, hi) + 1, hi, k, r), a, lo, Half(lo, hi), k)
\* <<the quotient of a by k, untrimmed, the remainder>>
BigDivRem(a, k) == IF a = <<>> THEN << <<>>, 0 >> ELSE DivRange(a, 1, Len(a), k, 0)

\* <<a quotient, whether anything was lost below it>>
Kept(qr, lost) == <<BigTrim(qr[1]), lost \/ qr[2] # 0>>
Over(ql, k) == Kept(BigDivRem(ql[1], k), ql[2])

\* <<a shifted s bits down, whether a bit of 1 was lost>>, and a shifted up
BigShr(a, s) ==
    IF s \div 15 >= Len(a) THEN << <<>>, a # <<>> >>
    ELSE Kept(BigDivRem(SubSeq(a, (s \div 15) + 1, Len(a)), 2^(s % 15)),
              \E i \in 1..(s \div 15) : a[i] # 0)
BigShl(a, s) ==
    IF a = <<>> THEN <<>> ELSE [i \in 1..(s \div 15) |-> 0] \o BigTimes(a, 2^(s % 15))

RECURSIVE Bits(_)
Bits(n) == IF n = 0 THEN 0 ELSE 1 + Bits(n \div 2)
\* the number of bits of a
BigBits(a) == IF a = <<>> THEN 0 ELSE 15 * (Len(a) - 1) + Bits(a[Len(a)])
BigOdd(a) == a # <<>> /\ a[1] % 2 = 1

\* a against b: -1, 0 or 1
TopDifference(a, b) == Highest({i \in 1..Len(a) : a[i] # b[i]})
BigCmp(a, b) ==
    IF Len(a) # Len(b) THEN (IF Len(a) < Len(b) THEN -1 ELSE 1)
    ELSE IF a = b THEN 0
    ELSE IF a[TopDifference(a, b)] < b[TopDifference(a, b)] THEN -1 ELSE 1
\* |a - b|
Apart(a, b) == IF BigCmp(a, b) >= 0 THEN BigSub(a, b) ELSE BigSub(b, a)

\* the digits ds as a natural number, four digits at a time
RECURSIVE BigOfDigits(_, _)
BigOfDigits(acc, ds) ==
    IF ds = <<>> THEN acc
    ELSE IF acc = <<>> /\ Head(ds) = "0" THEN BigOfDigits(acc, Tail(ds))
    ELSE IF Len(ds) < 4
    THEN BigOfDigits(BigAdd(BigTimes(acc, 10), BigOf(DigitVal(Head(ds)))), Tail(ds))
    ELSE BigOfDigits(BigAdd(BigTimes(acc, 10000), BigOf(DigitsValue(SubSeq(ds, 1, 4)))),
                     SubSeq(ds, 5, Len(ds)))
\* a * 5^p, six factors at a time
RECURSIVE BigTimesFive(_, _)
BigTimesFive(a, p) ==
    IF a = <<>> \/ p = 0 THEN a
    ELSE IF p >= 6 THEN BigTimesFive(BigTimes(a, 15625), p - 6)
    ELSE BigTimesFive(BigTimes(a, 5), p - 1)
\* <<the quotient of ql[1] by 5^p, whether anything was lost>>
RECURSIVE BigOverFive(_, _)
BigOverFive(ql, p) ==
    IF ql[1] = <<>> \/ p = 0 THEN ql
    ELSE IF p >= 6 THEN BigOverFive(Over(ql, 15625), p - 6)
    ELSE BigOverFive(Over(ql, 5), p - 1)

(***************************************************************************)
(* Rounding to a double: 53 bits of mantissa, exponents from -1074 up,     *)
(* Infinity from 2^1024 on.                                                *)
(***************************************************************************)
InRange(sign, m, x) == IF x + BigBits(m) > 1024 THEN Inf(sign) ELSE Double(sign, m, x)
Widened(sign, m, x, by) == InRange(sign, BigShl(m, by), x - by)
\* the double sign * m * 2^x for m of at most 53 bits, or 2^53, and x >= -1074
Canonical(sign, m, x) ==
    IF m = <<>> THEN Zero
    ELSE IF BigBits(m) > 53 THEN InRange(sign, BigShr(m, 1)[1], x + 1)
    ELSE Widened(sign, m, x, Least(53 - BigBits(m), x + 1074))
\* q and what was cut off below it: the half bit and whether there is more
RoundedUp(q, half, more) ==
    IF half /\ (more \/ BigOdd(q)) THEN BigAdd(q, <<1>>) ELSE q
HalfEven(qs, more) == RoundedUp(BigShr(qs[1], 1)[1], BigOdd(qs[1]), qs[2] \/ more)
\* N without its lowest s bits, to the nearest, ties to even
RoundAt(sign, N, x, more, s) ==
    Canonical(sign, IF s <= 0 THEN N ELSE HalfEven(BigShr(N, s - 1), more),
              x + Most(s, 0))
\* the double nearest to sign * (N + f) * 2^x, where 0 <= f < 1 and `more`
\* tells whether f > 0 (N then has bits to spare below the double's last)
Nearest(sign, N, x, more) ==
    IF N = <<>> THEN Zero
    ELSE RoundAt(sign, N, x, more, Most(BigBits(N) - 53, (-1074) - x))

\* the double nearest to the value of the digits sig with the decimal point
\* `point` places to the right of their end (to the left when negative), as
\* a positive number, Infinity or 0.  sig * 10^point is sig * 5^point *
\* 2^point; a division by 5^-point keeps 64 bits and more of its quotient.
Quotient(ql, x) == Nearest(1, ql[1], x, ql[2])
DoubleOf(sig, point) ==
    IF sig = <<>> THEN Zero
    ELSE IF Len(sig) + point > 310 THEN Inf(1)
    ELSE IF Len(sig) + point < -330 THEN Zero
    ELSE Quotient(IF point >= 0
                  THEN <<BigTimesFive(BigOfDigits(<<>>, sig), point), FALSE>>
                  ELSE BigOverFive(<<BigShl(BigOfDigits(<<>>, sig), 64 - 3 * point),
                                     FALSE>>, -point),
                  IF point >= 0 THEN point ELSE 4 * point - 64)

\* -v of a value that is a number, an infinity or NaN
Negated(v) == IF v.k = "nan" THEN v ELSE [v EXCEPT !.n = -v.n]

Signed(sign, v) == IF sign < 0 THEN Negated(v) ELSE v

\* the number literal n * 10^x: the double nearest to it
Dec(n, x) == IF n = 0 THEN Zero ELSE Signed(n, DoubleOf(DigitsOf(Abs(n)), x))
\* the literal of h hundredths
Num(h)    == Dec(h, -2)
\* the whole number i, which is a double as it stands: its bits moved up to
\* the top of the mantissa
Whole(i)  ==
    IF i = 0 THEN Zero
    ELSE Double(SignOf(i), BigShl(BigOf(Abs(i)), 53 - Bits(Abs(i))), Bits(Abs(i)) - 53)

\* the exponent denoted by the head of cs: e or E, an optional sign and at
\* least one digit; 0 when cs does not start with such a part.  An exponent
\* of more than six digits is past every double either way.
ExponentValue(ds) ==
    IF Len(DropLeadingZeros(ds)) > 6 THEN 1000000 ELSE DigitsValue(ds)
ExponentPart(cs) ==
    LET hasE   == cs # <<>> /\ Head(cs) \in {"e", "E"}
        a      == IF hasE THEN Tail(cs) ELSE <<>>
        signed == a # <<>> /\ Head(a) \in {"+", "-"}
        ds     == TakeDigits(<<>>, IF signed THEN Tail(a) ELSE a)[1]
    IN  IF ~hasE \/ ds = <<>> THEN 0
        ELSE IF signed /\ Head(a) = "-" THEN -ExponentValue(ds)
        ELSE ExponentValue(ds)

\* the decimal literal with integer digits ip, fraction digits fp and the
\* text `rest` after them, which may start with an exponent part
DecimalLiteral(ip, fp, rest) ==
    IF ip = <<>> /\ fp = <<>> THEN NaN
    ELSE DoubleOf(DropLeadingZeros(ip \o fp), ExponentPart(rest) - Len(fp))

\* the fraction digits after the integer digits ip = <<digits, rest>>, as
\* <<digits, rest>>
FractionPart(ip) ==
    IF ip[2] # <<>> /\ Head(ip[2]) = "."
    THEN TakeDigits(<<>>, Tail(ip[2])) ELSE <<(<<>>), ip[2]>>
WithFraction(ip, fp) == DecimalLiteral(ip[1], fp[1], fp[2])
FromIntegerPart(ip) == WithFraction(ip, FractionPart(ip))

\* the longest prefix of u that is "Infinity" or a decimal literal
UnsignedLiteral(u) ==
    IF IsPrefix(InfinityWord, u) THEN Inf(1)
    ELSE FromIntegerPart(TakeDigits(<<>>, u))

\* the sign and what follows it
SignedLiteral(t) ==
    Signed(IF t # <<>> /\ Head(t) = "-" THEN -1 ELSE 1,
           UnsignedLiteral(IF t # <<>> /\ Head(t) \in {"+", "-"} THEN Tail(t) ELSE t))

\* Number.parseFloat: leading white space, an optional sign, then
\* "Infinity" or the longest decimal literal (digits, a fraction, an
\* exponent); NaN when there is none.
parseFloat(cs) == SignedLiteral(SkipSpace(cs))

\* src/lib/cart.ts safeNumber
ZeroIfNaN(num) == IF num.k = "nan" THEN Whole(0) ELSE num
safeNumber(value) ==
    IF value.k \in {"null", "undefined"} THEN Whole(0)
    ELSE ZeroIfNaN(IF value.k = "str" THEN parseFloat(value.s)
                   ELSE [value EXCEPT !.s = <<>>])

\* |a| against |b| for two numbers other than 0: -1, 0 or 1
MagCmp(a, b) ==
    IF a.x # b.x THEN (IF a.x < b.x THEN -1 ELSE 1) ELSE BigCmp(a.m, b.m)

\* a against b for two numbers: -1 (a < b), 0 or 1
NumCmp(a, b) ==
    IF a.n # b.n THEN (IF a.n < b.n THEN -1 ELSE 1)
    ELSE IF a.n = 0 THEN 0
    ELSE a.n * MagCmp(a, b)

\* Math.max of two numbers, neither of them NaN
MathMax(a, b) ==
    CASE a.k = "inf" /\ a.n = 1  -> a
      [] b.k = "inf" /\ b.n = 1  -> b
      [] a.k = "inf"             -> b
      [] b.k = "inf"             -> a
      [] OTHER                   -> IF NumCmp(a, b) >= 0 THEN a ELSE b

\* a * b of two finite numbers: the exact product, rounded
Times(a, b) ==
    IF a.n = 0 \/ b.n = 0 THEN Zero
    ELSE Nearest(a.n * b.n, BigMul(a.m, b.m), a.x + b.x, FALSE)

\* a * b of two numbers, neither of them NaN (Infinity * 0 is NaN)
JsMul(a, b) ==
    CASE a.k = "num" /\ b.k = "num" -> Times(a, b)
      [] a.k = "num" /\ a.n = 0     -> NaN
      [] b.k = "num" /\ b.n = 0     -> NaN
      [] OTHER -> Inf(IF (a.n < 0) = (b.n < 0) THEN 1 ELSE -1)

\* big + small of two numbers other than 0 with big.x >= small.x, exactly,
\* as <<sign, N, x, more>> (see Nearest); A is big.m at the exponent of small
ExactSum(big, small, A) ==
    IF big.n = small.n THEN <<big.n, BigAdd(A, small.m), small.x, FALSE>>
    ELSE <<big.n * BigCmp(A, small.m), Apart(A, small.m), small.x, FALSE>>
\* the same for small more than 60 bits below big, where small only tells
\* which way the sum lies from big
Beside(big, small) ==
    <<big.n,
      IF big.n = small.n THEN BigShl(big.m, 2) ELSE BigSub(BigShl(big.m, 2), <<1>>),
      big.x - 2, TRUE>>
NearestTo(e) == Nearest(e[1], e[2], e[3], e[4])
Aligned(big, small) ==
    NearestTo(IF big.x - small.x > 60 THEN Beside(big, small)
              ELSE ExactSum(big, small, BigShl(big.m, big.x - small.x)))
\* a + b of two finite numbers: the exact sum, rounded
Plus(a, b) ==
    IF a.n = 0 THEN b
    ELSE IF b.n = 0 THEN a
    ELSE Aligned(IF a.x >= b.x THEN a ELSE b, IF a.x >= b.x THEN b ELSE a)

\* a || b on numbers: 0 and NaN are falsy
JsOr(a, b) == IF a.k = "nan" \/ (a.k = "num" /\ a.n = 0) THEN b ELSE a

(***************************************************************************)
(* The session slot and the token read from it.                            *)
(***************************************************************************)
NoToken == "null"
Sessions == {"absent", "malformed", "userOnly", "tokenOnly", "full"}

\* src/lib/api.ts getAuthToken (the checkout page holds the same function,
\* part_001 lines 300-309; src/lib/cart.ts imports it from lib/auth):
\* no item, or an item that does not parse, or one without a token: null
getAuthToken(s) ==
    IF s = "absent" THEN NoToken
    ELSE IF s = "malformed" THEN NoToken
    ELSE IF s \in {"tokenOnly", "full"} THEN "tok" ELSE NoToken

(***************************************************************************)
(* What a fetch can give: a rejected promise (net = "error") or a response *)
(* with a status (ok: 2xx or not) and a body.  A body is empty text, text  *)
(* that is no JSON, the JSON null, or an envelope object whose success     *)
(* field is true, false or missing.                                        *)
(***************************************************************************)
RawQuantities == {Undefined, Null, NaN, Whole(-2), Whole(0), Whole(3),
                  Str(<<"a", "b", "c">>), Str(<<"2">>), Inf(1)}
RawItems ==
    { [price |-> Whole(1000), quantity |-> Whole(2), total |-> Whole(0)],
      [price |-> Str(<<"1", "2", ".", "5">>), quantity |-> Str(<<"2">>),
       total |-> Null],
      [price |-> Whole(-3), quantity |-> Whole(0), total |-> Whole(700)],
      [price |-> Whole(2), quantity |-> Str(<<"x">>),
       total |-> Str(<<"a", "b", "c">>)],
      [price |-> Whole(4), quantity |-> Whole(3), total |-> Undefined],
      [price |-> Str(<<"0", ".", "0", "0", "4">>), quantity |-> Whole(3),
       total |-> Str(<<"0", ".", "0", "0", "4">>)] }

RECURSIVE ListsUpTo(_, _)
ListsUpTo(S, n) ==
    IF n = 0 THEN {<<>>}
    ELSE LET shorter == ListsUpTo(S, n - 1)
         IN  shorter \cup {Append(l, x) : l \in shorter, x \in S}

NoData       == [kind |-> "absent", items |-> <<>>]
ObjectData(i) == [kind |-> "object", items |-> <<i>>]
ListData(l)  == [kind |-> "list", items |-> l]

Envelopes(dataSet) ==
    [body : {"object"}, success : {"true", "false", "undefined"},
     data : dataSet, message : BOOLEAN]
BareBodies ==
    [body : {"empty", "unparseable", "null"}, success : {"undefined"},
     data : {NoData}, message : {FALSE}]
Responses(dataSet) ==
    { [net |-> "error", ok |-> FALSE, body |-> "empty", success |-> "undefined",
       data |-> NoData, message |-> FALSE] }
    \cup { [net |-> "ok", ok |-> o, body |-> b.body, success |-> b.success,
            data |-> b.data, message |-> b.message]
           : o \in BOOLEAN, b \in Envelopes(dataSet) \cup BareBodies }

ListResponses == Responses({NoData} \cup {ObjectData(i) : i \in RawItems}
                           \cup {ListData(l) : l \in ListsUpTo(RawItems, MaxItems)})
ItemResponses == Responses({NoData, ListData(<<>>)}
                           \cup {ObjectData(i) : i \in RawItems})
PlainResponses == Responses({NoData})

\* `await response.json()` gives a value (rather than rejecting)
Parses(r) == r.net = "ok" /\ r.body \in {"null", "object"}
\* the parsed body is an object whose success field is truthy
ReportsSuccess(r) == Parses(r) /\ r.body = "object" /\ r.success = "true"
\* data.data is truthy: an item object or a list (an empty list included)
HasData(r) == r.data.kind \in {"object", "list"}

(***************************************************************************)
(* Effects a call leaves in `log`, and the ways a call ends.               *)
(***************************************************************************)
Request(method, url, token, qty) ==
    [e |-> "request", name |-> method, url |-> url, auth |-> token, qty |-> qty,
     resp |-> <<>>]
Response(r) ==
    [e |-> "response", name |-> "", url |-> "", auth |-> "", qty |-> Null,
     resp |-> <<r>>]
Event(name) ==
    [e |-> "event", name |-> name, url |-> "", auth |-> "", qty |-> Null,
     resp |-> <<>>]
Sleep ==
    [e |-> "sleep", name |-> "1000", url |-> "", auth |-> "", qty |-> Null,
     resp |-> <<>>]
Attempt ==
    [e |-> "attempt", name |-> "clearCart", url |-> "", auth |-> "", qty |-> Null,
     resp |-> <<>>]

NoResult       == [kind |-> "none", bool |-> "", items |-> <<>>, what |-> ""]
ReturnBool(b)  == [kind |-> "return", bool |-> b, items |-> <<>>, what |-> "boolean"]
ReturnList(l)  == [kind |-> "return", bool |-> "", items |-> l, what |-> "list"]
ReturnItem(i)  == [kind |-> "return", bool |-> "", items |-> <<i>>, what |-> "item"]
ReturnWhat(w)  == [kind |-> "return", bool |-> "", items |-> <<>>, what |-> w]
Throw(message) == [kind |-> "throw", bool |-> "", items |-> <<>>, what |-> message]

AuthenticationRequired == "Authentication required"

(***************************************************************************)
(* src/lib/cart.ts: what each Cart Client function does without a token,   *)
(* and what it does with the outcome r of its fetch.  An outcome is the    *)
(* events dispatched on window, in order, and the way the call ends.       *)
(***************************************************************************)
Outcome(events, res) == [events |-> events, result |-> res]
Quiet(res) == Outcome(<<>>, res)

\* the map callback computing the total from the quantity as received
NormalizeListItemRawQuantity(item) ==
    LET safePrice       == safeNumber(item.price)
        safeQuantity    == MathMax(Whole(1), safeNumber(item.quantity))
        calculatedTotal == JsMul(safePrice, safeNumber(item.quantity))
    IN  [price |-> safePrice, quantity |-> safeQuantity,
         total |-> JsOr(safeNumber(item.total), calculatedTotal)]

\* getCart's map callback (lines 67-76); the product snapshot (lines 77-85)
\* holds display text only and is left out
NormalizeListItem(item) ==
    LET safePrice       == safeNumber(item.price)
        safeQuantity    == MathMax(Whole(1), safeNumber(item.quantity))
        calculatedTotal == JsMul(safePrice, safeQuantity)
    IN  [price |-> safePrice, quantity |-> safeQuantity,
         total |-> JsOr(safeNumber(item.total), calculatedTotal)]

\* getCart, lines 52-54
GetCartNoToken == Quiet(ReturnList(<<>>))

\* getCart without its try/catch: data without a map method throws
GetCartUncaught(r) ==
    IF ~Parses(r) \/ r.body = "null" THEN Quiet(ReturnList(<<>>))
    ELSE IF r.success = "true" /\ HasData(r)
         THEN IF r.data.kind = "list"
              THEN Quiet(ReturnList([i \in 1..Len(r.data.items) |->
                                        NormalizeListItem(r.data.items[i])]))
              ELSE Quiet(Throw("TypeError"))
         ELSE Quiet(ReturnList(<<>>))

\* getCart, lines 63-94: a rejected fetch, a body that does not parse, a
\* null body (data.success throws) and data that has no map method all end
\* in the catch block
GetCartOnResponse(r) ==
    IF ~Parses(r) \/ r.body = "null" THEN Quiet(ReturnList(<<>>))
    ELSE IF r.success = "true" /\ HasData(r)
         THEN IF r.data.kind = "list"
              THEN Quiet(ReturnList([i \in 1..Len(r.data.items) |->
                                        NormalizeListItem(r.data.items[i])]))
              ELSE Quiet(ReturnList(<<>>))
         ELSE Quiet(ReturnList(<<>>))

\* addToCart, lines 100-102 and the rethrow of lines 136-139
AddToCartNoToken == Quiet(Throw(AuthenticationRequired))

\* JSON.stringify of a number in a request body (lines 113-117, 158-160):
\* NaN and the infinities are written as null
JsonStringifyNumber(x) == IF x.k \in {"nan", "inf"} THEN Null ELSE x

\* addToCart, lines 104-105
AddToCartQuantity(quantity) == MathMax(Whole(1), safeNumber(quantity))

\* the item addToCart builds from data.data (lines 125-132); data that is a
\* list has no price, quantity or total property
AddedItem(d) ==
    LET cartItem == IF d.kind = "object" THEN d.items[1]
                    ELSE [price |-> Undefined, quantity |-> Undefined,
                          total |-> Undefined]
    IN  [price |-> safeNumber(cartItem.price),
         quantity |-> safeNumber(cartItem.quantity),
         total |-> JsOr(safeNumber(cartItem.total),
                        JsMul(safeNumber(cartItem.price),
                              safeNumber(cartItem.quantity)))]

\* cartUpdated dispatched as soon as the body is parsed, before the test of
\* data.success
AddToCartEagerEvent(r) ==
    IF r.net = "error" THEN Quiet(Throw("fetch failed"))
    ELSE IF ~Parses(r) THEN Quiet(Throw("SyntaxError"))
    ELSE IF r.body = "null" THEN Quiet(Throw("TypeError"))
    ELSE IF r.success = "true" /\ HasData(r)
         THEN Outcome(<<Event("cartUpdated")>>, ReturnItem(AddedItem(r.data)))
         ELSE Outcome(<<Event("cartUpdated")>>,
                      Throw(IF r.message THEN "backend message"
                            ELSE "Failed to add to cart"))

\* addToCart, lines 120-139
AddToCartOnResponse(r) ==
    IF r.net = "error" THEN Quiet(Throw("fetch failed"))
    ELSE IF ~Parses(r) THEN Quiet(Throw("SyntaxError"))
    ELSE IF r.body = "null" THEN Quiet(Throw("TypeError"))
    ELSE IF r.success = "true" /\ HasData(r)
         THEN Outcome(<<Event("cartUpdated")>>, ReturnItem(AddedItem(r.data)))
         ELSE Quiet(Throw(IF r.message THEN "backend message"
                          ELSE "Failed to add to cart"))

\* updateCartQuantity, lines 145-147 with the catch of lines 169-172
UpdateCartQuantityNoToken == Quiet(ReturnBool("false"))

\* updateCartQuantity, lines 149-150
UpdateCartQuantityQuantity(quantity) == MathMax(Whole(1), safeNumber(quantity))

\* updateCartQuantity, lines 163-172: `return data.success` hands back the
\* field as it is, undefined when the body has none
UpdateCartQuantityOnResponse(r) ==
    IF ~Parses(r) \/ r.body = "null" THEN Quiet(ReturnBool("false"))
    ELSE Outcome(IF r.success = "true" THEN <<Event("cartUpdated")>> ELSE <<>>,
                 ReturnBool(r.success))

\* removeFromCart, lines 178-180 with the catch of lines 195-198
RemoveFromCartNoToken == Quiet(ReturnBool("false"))

\* the dispatch of cartUpdated left out
RemoveFromCartSilent(r) ==
    IF ~Parses(r) \/ r.body = "null" THEN Quiet(ReturnBool("false"))
    ELSE Quiet(ReturnBool(r.success))

\* removeFromCart, lines 189-198
RemoveFromCartOnResponse(r) ==
    IF ~Parses(r) \/ r.body = "null" THEN Quiet(ReturnBool("false"))
    ELSE Outcome(IF r.success = "true" THEN <<Event("cartUpdated")>> ELSE <<>>,
                 ReturnBool(r.success))

\* clearCart, lines 205-208 with the catch of lines 242-245
ClearCartNoToken == Quiet(ReturnBool("false"))

\* clearCart, lines 221-245
ClearCartOnResponse(r) ==
    IF r.net = "error" THEN Quiet(ReturnBool("false"))
    ELSE IF ~r.ok THEN Quiet(ReturnBool("false"))
    ELSE IF ~Parses(r) \/ r.body = "null" THEN Quiet(ReturnBool("false"))
    ELSE IF r.success = "true"
         THEN Outcome(<<Event("cartUpdated"), Event("cartCleared")>>,
                      ReturnBool("true"))
         ELSE Quiet(ReturnBool("false"))

\* clearCartAfterCheckout, line 254
maxAttempts == 3

\* the outer try/catch left out: the error escapes
ClearCartAfterCheckoutRethrows == Throw("Failed to clear cart after multiple attempts")

\* clearCartAfterCheckout, lines 277-282: the loop is left without a success;
\* lastError (or a new Error) is thrown and the outer catch returns false
ClearCartAfterCheckoutExhausted == ReturnBool("false")

\* clearCartAfterCheckout, lines 260-263
ClearCartAfterCheckoutSuccess == ReturnBool("true")

\* clearCartAfterCheckout, line 257: the loop condition
LoopContinues(n) == n < maxAttempts

\* the pause taken after every failed attempt
PauseAfterEvery(n) == TRUE

\* clearCartAfterCheckout, line 271: the condition of the pause
PauseAfter(n) == n < maxAttempts

(***************************************************************************)
(* src/lib/api.ts: the Product Client operations that need a token.        *)
(***************************************************************************)
ProductResponses == Responses({NoData} \cup {ObjectData(i) : i \in RawItems})

\* the token test left out of a product mutation
ProductNoTokenIgnored == ReturnWhat("void")

\* createProduct, updateProduct, deleteProduct: lines 213-215, 257-259,
\* 332-334, each rethrown by the function's catch block
ProductNoToken == Throw(AuthenticationRequired)

\* `data.data || data` after `if (data.success && data.data) return data.data`
ProductPayload(r) == IF HasData(r) THEN ReturnWhat("data") ELSE ReturnWhat("body")

\* createProduct, lines 234-250
CreateProductOnResponse(r) ==
    IF r.net = "error" THEN Throw("fetch failed")
    ELSE IF ~Parses(r) THEN Throw("SyntaxError")
    ELSE IF r.body = "null" THEN Throw("TypeError")
    ELSE IF ~r.ok THEN Throw(IF r.message THEN "backend message" ELSE "HTTP error")
    ELSE ProductPayload(r)

\* updateProduct, lines 285-325: the body is read as text; an OK response
\* whose text is empty, does not parse, or parses to null gives the
\* synthesized success object
UpdateProductOnResponse(r) ==
    IF r.net = "error" THEN Throw("fetch failed")
    ELSE IF ~r.ok
         THEN CASE r.body = "empty"       -> Throw("HTTP error")
                [] r.body = "unparseable" -> Throw("response text")
                [] r.body = "null"        -> Throw("TypeError")
                [] OTHER -> Throw(IF r.message THEN "backend message"
                                  ELSE "HTTP error")
         ELSE IF r.body \in {"empty", "unparseable", "null"}
              THEN ReturnWhat("synthesized success")
              ELSE ProductPayload(r)

\* deleteProduct, lines 345-352: the body is read only when the status is
\* not OK
DeleteProductOnResponse(r) ==
    IF r.net = "error" THEN Throw("fetch failed")
    ELSE IF r.ok THEN ReturnWhat("void")
    ELSE IF ~Parses(r) THEN Throw("SyntaxError")
    ELSE IF r.body = "null" THEN Throw("TypeError")
    ELSE Throw(IF r.message THEN "backend message" ELSE "HTTP error")

(***************************************************************************)
(* The library as a state machine.  A call runs to its first await         *)
(* (pc = "fetch") or, without a token, to its end (pc = "done").           *)
(***************************************************************************)
CartOps == {"getCart", "addToCart", "updateCartQuantity", "removeFromCart",
            "clearCart", "clearCartAfterCheckout"}
CartMutations == {"addToCart", "updateCartQuantity", "removeFromCart", "clearCart"}
ProductMutations == {"createProduct", "updateProduct", "deleteProduct"}

Idle == pc \in {"idle", "done"}

Finish(o, a, lg, outcome) ==
    /\ op' = o /\ arg' = a /\ attempts' = 0
    /\ log' = lg \o outcome.events
    /\ result' = outcome.result
    /\ pc' = "done"

Await(o, a, lg) ==
    /\ op' = o /\ arg' = a /\ attempts' = 0
    /\ log' = lg
    /\ result' = NoResult
    /\ pc' = "fetch"

\* the token test left out: the request goes out with "Bearer null"
CallWithoutTokenTest(o, a, noToken, request) == Await(o, a, <<request>>)

\* the library part of a call of f with quantity argument a
Call(o, a, noToken, request) ==
    IF getAuthToken(session) = NoToken
    THEN Finish(o, a, <<>>, noToken)
    ELSE Await(o, a, <<request>>)

\* the library part of the arrival of the awaited fetch outcome
Resume(outcome, r) ==
    Finish(op, arg, Append(log, Response(r)), outcome)

GetCartCall ==
    Call("getCart", Null, GetCartNoToken,
         Request("GET", "/api/cart", getAuthToken(session), Null))

CallGetCart == Idle /\ GetCartCall /\ UNCHANGED <<session, pageVars>>

GetCartResponse ==
    /\ op = "getCart" /\ pc = "fetch"
    /\ \E r \in ListResponses : Resume(GetCartOnResponse(r), r)
    /\ UNCHANGED <<session, pageVars>>

CallAddToCart ==
    /\ Idle
    /\ \E quantity \in RawQuantities :
          Call("addToCart", quantity, AddToCartNoToken,
               Request("POST", "/api/cart", getAuthToken(session),
                       JsonStringifyNumber(AddToCartQuantity(quantity))))
    /\ UNCHANGED <<session, pageVars>>

AddToCartResponse ==
    /\ op = "addToCart" /\ pc = "fetch"
    /\ \E r \in ItemResponses : Resume(AddToCartOnResponse(r), r)
    /\ UNCHANGED <<session, pageVars>>

CallUpdateCartQuantity ==
    /\ Idle
    /\ \E quantity \in RawQuantities :
          Call("updateCartQuantity", quantity, UpdateCartQuantityNoToken,
               Request("PUT", "/api/cart/{itemId}", getAuthToken(session),
                       JsonStringifyNumber(UpdateCartQuantityQuantity(quantity))))
    /\ UNCHANGED <<session, pageVars>>

UpdateCartQuantityResponse ==
    /\ op = "updateCartQuantity" /\ pc = "fetch"
    /\ \E r \in PlainResponses : Resume(UpdateCartQuantityOnResponse(r), r)
    /\ UNCHANGED <<session, pageVars>>

CallRemoveFromCart ==
    /\ Idle
    /\ Call("removeFromCart", Null, RemoveFromCartNoToken,
            Request("DELETE", "/api/cart/{itemId}", getAuthToken(session), Null))
    /\ UNCHANGED <<session, pageVars>>

RemoveFromCartResponse ==
    /\ op = "removeFromCart" /\ pc = "fetch"
    /\ \E r \in PlainResponses : Resume(RemoveFromCartOnResponse(r), r)
    /\ UNCHANGED <<session, pageVars>>

ClearCartRequest ==
    Request("DELETE", "/api/cart/clear", getAuthToken(session), Null)

\* clearCart removing the stored session as it goes
CallClearCartDroppingSession ==
    /\ Idle
    /\ Call("clearCart", Null, ClearCartNoToken, ClearCartRequest)
    /\ session' = "absent"
    /\ UNCHANGED pageVars

CallClearCart ==
    /\ Idle
    /\ Call("clearCart", Null, ClearCartNoToken, ClearCartRequest)
    /\ UNCHANGED <<session, pageVars>>

ClearCartResponse ==
    /\ op = "clearCart" /\ pc = "fetch"
    /\ \E r \in PlainResponses : Resume(ClearCartOnResponse(r), r)
    /\ UNCHANGED <<session, pageVars>>

(***************************************************************************)
(* clearCartAfterCheckout, lines 249-283.  LoopHead is the test of the     *)
(* while loop with n attempts made and what follows it: the call of        *)
(* clearCart up to its await or, the loop left, the throw and the outer    *)
(* catch.  AfterAttempt is the loop body from the return of clearCart on.  *)
(***************************************************************************)
WrapperState(n, lg, res, p) ==
    /\ op' = "clearCartAfterCheckout" /\ arg' = Null
    /\ attempts' = n /\ log' = lg /\ result' = res /\ pc' = p

RECURSIVE LoopHead(_, _)
AfterAttempt(n, lg, outcome) ==
    LET lg2 == lg \o outcome.events IN
    IF outcome.result = ReturnBool("true")
    THEN WrapperState(n, lg2, ClearCartAfterCheckoutSuccess, "done")
    ELSE IF PauseAfter(n + 1)
         THEN WrapperState(n + 1, Append(lg2, Sleep), NoResult, "sleep")
         ELSE LoopHead(n + 1, lg2)

LoopHead(n, lg) ==
    IF ~LoopContinues(n)
    THEN WrapperState(n, lg, ClearCartAfterCheckoutExhausted, "done")
    ELSE IF getAuthToken(session) = NoToken
         THEN AfterAttempt(n, Append(lg, Attempt), ClearCartNoToken)
         ELSE WrapperState(n, lg \o <<Attempt, ClearCartRequest>>, NoResult, "fetch")

\* lines 251-259: `attempts = 0`, then the loop
ClearCartAfterCheckoutCall == LoopHead(0, <<>>)

CallClearCartAfterCheckout ==
    /\ Idle
    /\ ClearCartAfterCheckoutCall
    /\ UNCHANGED <<session, pageVars>>

\* the awaited clearCart of one pass settles
ClearAttemptResponse ==
    /\ op = "clearCartAfterCheckout" /\ pc = "fetch"
    /\ \E r \in PlainResponses :
          AfterAttempt(attempts, Append(log, Response(r)), ClearCartOnResponse(r))
    /\ UNCHANGED <<session, pageVars>>

\* the setTimeout of line 273 fires: back to the head of the loop
RetryTimer ==
    /\ op = "clearCartAfterCheckout" /\ pc = "sleep"
    /\ LoopHead(attempts, log)
    /\ UNCHANGED <<session, pageVars>>

ProductMethod(o, isFormData) ==
    CASE o = "createProduct" -> "POST"
      [] o = "updateProduct" -> IF isFormData THEN "POST" ELSE "PUT"
      [] OTHER               -> "DELETE"

\* createProduct posts to the base URL (line 219); updateProduct and
\* deleteProduct address the product, `${this.baseUrl}/${id}` (268, 336)
CallProductMutation ==
    /\ Idle
    /\ \E o \in ProductMutations, isFormData \in BOOLEAN :
          Call(o, Null, Quiet(ProductNoToken),
               Request(ProductMethod(o, isFormData),
                       IF o = "createProduct" THEN "/api/products"
                       ELSE "/api/products/{id}",
                       getAuthToken(session), Null))
    /\ UNCHANGED <<session, pageVars>>

ProductOnResponse(o, r) ==
    CASE o = "createProduct" -> CreateProductOnResponse(r)
      [] o = "updateProduct" -> UpdateProductOnResponse(r)
      [] OTHER               -> DeleteProductOnResponse(r)

ProductMutationResponse ==
    /\ op \in ProductMutations /\ pc = "fetch"
    /\ \E r \in ProductResponses : Resume(Quiet(ProductOnResponse(op, r)), r)
    /\ UNCHANGED <<session, pageVars>>

(***************************************************************************)
(* The checkout page, src/unnamed/part_001.  Text is a sequence of         *)
(* one-character strings.                                                  *)
(***************************************************************************)
Letters == {"a", "b", "c", "d", "e", "f", "g", "h", "i", "j", "k", "l", "m",
            "n", "o", "p", "q", "r", "s", "t", "u", "v", "w", "x", "y", "z",
            "A", "B", "C", "D", "E", "F", "G", "H", "I", "J", "K", "L", "M",
            "N", "O", "P", "Q", "R", "S", "T", "U", "V", "W", "X", "Y", "Z"}

NameChar(c) == c \in Letters \/ IsSpace(c) \/ c \in {"'", "-"}

RECURSIVE KeepDigits(_)
KeepDigits(cs) ==
    IF cs = <<>> THEN <<>>
    ELSE IF IsDigit(Head(cs)) THEN <<Head(cs)>> \o KeepDigits(Tail(cs))
    ELSE KeepDigits(Tail(cs))

RECURSIVE KeepNameChars(_)
KeepNameChars(cs) ==
    IF cs = <<>> THEN <<>>
    ELSE IF NameChar(Head(cs)) THEN <<Head(cs)>> \o KeepNameChars(Tail(cs))
    ELSE KeepNameChars(Tail(cs))

Slice(cs, n) == SubSeq(cs, 1, IF Len(cs) < n THEN Len(cs) ELSE n)

requiredFields == <<"firstName", "lastName", "email", "phone", "address",
                    "city", "province", "zipCode">>

EmptyShippingInfo == [f \in {requiredFields[i] : i \in 1..8} |-> <<>>]

\* handleInputChange, lines 94-129: the new shippingInfo after the field
\* `name` received `value`
handleInputChange(info, name, value) ==
    CASE name = "phone" -> [info EXCEPT ![name] = Slice(KeepDigits(value), 11)]
      [] name \in {"firstName", "lastName"} ->
             [info EXCEPT ![name] = KeepNameChars(value)]
      [] name = "zipCode" -> [info EXCEPT ![name] = KeepDigits(value)]
      [] name \in {"city", "province"} ->
             [info EXCEPT ![name] = KeepNameChars(value)]
      [] OTHER -> [info EXCEPT ![name] = value]

\* String.prototype.trim() leaves nothing
TrimIsEmpty(cs) == \A i \in 1..Len(cs) : IsSpace(cs[i])

\* /^[^\s@]+@[^\s@]+\.[^\s@]+$/
emailRegexTest(cs) ==
    \E i \in 1..Len(cs), j \in 1..Len(cs) :
        /\ 1 < i /\ i + 1 < j /\ j < Len(cs)
        /\ cs[i] = "@" /\ cs[j] = "."
        /\ \A k \in 1..Len(cs) : ~IsSpace(cs[k]) /\ (cs[k] = "@" => k = i)

\* /^[0-9]{11}$/
phoneRegexTest(cs) == Len(cs) = 11 /\ \A i \in 1..Len(cs) : IsDigit(cs[i])

\* validateForm without the startsWith("09") test of lines 223-226
validateFormAnyPrefix(info) ==
    IF \E i \in 1..Len(requiredFields) : TrimIsEmpty(info[requiredFields[i]])
    THEN FALSE
    ELSE IF ~emailRegexTest(info.email) THEN FALSE
    ELSE phoneRegexTest(info.phone)

\* validateForm, lines 201-229
validateForm(info) ==
    IF \E i \in 1..Len(requiredFields) : TrimIsEmpty(info[requiredFields[i]])
    THEN FALSE
    ELSE IF ~emailRegexTest(info.email) THEN FALSE
    ELSE IF ~phoneRegexTest(info.phone) THEN FALSE
    ELSE IF ~IsPrefix(<<"0", "9">>, info.phone) THEN FALSE
    ELSE TRUE

\* the account the auth collaborator answers with: its email is one the
\* page's pattern accepts, or one it does not
TheUser == [name |-> <<"A", "n", "n", " ", "L", "e", "e">>,
            email |-> <<"a", "@", "b", ".", "c">>]
Users == {TheUser, [TheUser EXCEPT !.email = <<"a", "@", "b">>]}

RECURSIVE FirstSpace(_, _)
FirstSpace(cs, i) ==
    IF i > Len(cs) THEN 0 ELSE IF cs[i] = " " THEN i ELSE FirstSpace(cs, i + 1)

\* lines 63-69, 149-155, 183-189: name.split(" ") gives the first name, the
\* remaining parts joined by " " the last name
PrefillFromUser(prev, user) ==
    LET sp == FirstSpace(user.name, 1)
        first == IF sp = 0 THEN user.name ELSE SubSeq(user.name, 1, sp - 1)
        rest  == IF sp = 0 THEN <<>> ELSE SubSeq(user.name, sp + 1, Len(user.name))
    IN  [prev EXCEPT !.firstName = first, !.lastName = rest, !.email = user.email]

\* lib/auth getCurrentUser: the user of the stored session, if it holds one
getCurrentUser(s) == s \in {"userOnly", "full"}

\* lib/auth login and register: the call gives a result, gives nothing, or
\* rejects; a result comes with the session stored
AuthOutcomes == {"result", "nothing", "rejects"}
SessionAfterAuth(s, outcome) == IF outcome = "result" THEN "full" ELSE s

\* cart-context refreshCart: resolves or rejects
RefreshOutcomes == {"resolves", "rejects"}

\* a shipping form that passes the validation
ValidEntry ==
    [firstName |-> <<"A", "n", "n">>, lastName |-> <<"L", "e", "e">>,
     email |-> <<"a", "@", "b", ".", "c">>,
     phone |-> <<"0", "9", "1", "2", "3", "4", "5", "6", "7", "8", "9">>,
     address |-> <<"1", " ", "R", "d">>, city |-> <<"C", "e", "b", "u">>,
     province |-> <<"C", "e", "b", "u">>, zipCode |-> <<"6", "0", "0", "0">>]

\* the fields of the shipping form the user can type into: the email input
\* is readOnly (line 630)
EditableFields == <<"firstName", "lastName", "phone", "address", "city",
                    "province", "zipCode">>

\* the texts the user types into the field `name` of the shipping form; the
\* phone input holds at most 11 characters (maxLength, line 650), and a
\* single-line input holds no line break: a blank address is spaces
FieldTexts(name) ==
    CASE name = "phone"   -> {ValidEntry.phone,
                              <<"0", "9", "1", "2", "-", "3", "4", "5", "6", "7", "8">>,
                              <<"9", "1", "2", "3", "4", "5", "6", "7", "8", "9", "0">>}
      [] name = "address" -> {ValidEntry.address, <<" ", " ">>}
      [] name = "city"    -> {<<"C", "e", "b", "u", "7">>}
      [] OTHER            -> {ValidEntry[name]}

\* the texts typed into the password inputs: none, or one of two texts no
\* shorter than the minLength of the register form (line 545)
Passwords == {<<>>, <<"s", "e", "c", "r", "e", "t">>,
              <<"S", "e", "c", "r", "e", "t">>}

\* the items of the account's cart, and the cart lists the backend answers
\* the page's getCart with: no item, the first item, both items
PageItems ==
    << [price |-> Whole(1000), quantity |-> Whole(2), total |-> Whole(0)],
       [price |-> Str(<<"1", "2", ".", "5">>), quantity |-> Str(<<"2">>),
        total |-> Null] >>
PageLists == { SubSeq(PageItems, 1, n) : n \in 0..Len(PageItems) }
PageListResponses ==
    { r \in Responses({NoData} \cup {ListData(l) : l \in PageLists}) :
        r.message = FALSE /\ r.body \in {"unparseable", "object"}
        /\ r.success \in {"true", "false"} /\ (r.net = "ok" => r.ok) }
OrderData == [kind |-> "object", items |-> <<>>]
OrderResponses == Responses({NoData, OrderData})
PageClearResponses ==
    { r \in PlainResponses : r.message = FALSE /\ r.body = "object"
                             /\ r.success \in {"true", "false"}
                             /\ (r.net = "ok" => r.ok) }

EmptyAuthInfo == [password |-> <<>>, confirmPassword |-> <<>>]
\* handler: which of handleLogin and handleRegister is under way
NothingPending == [fetchCart |-> "none", auth |-> "none", handler |-> "none",
                   submit |-> "none", order |-> "none"]

PageInit ==
    /\ route = "/checkout"
    /\ mounted = "no"
    /\ loading = TRUE
    /\ isProcessing = FALSE
    /\ isAuthenticating = FALSE
    /\ checkoutMode = "login"
    /\ cart = <<>>
    /\ authInfo = EmptyAuthInfo
    /\ shippingInfo = EmptyShippingInfo
    /\ pending = NothingPending
    /\ orders = <<>>
    /\ pageLog = <<>>
    /\ toast = ""

LibInit ==
    /\ op = "idle" /\ pc = "idle" /\ arg = Null /\ attempts = 0
    /\ log = <<>> /\ result = NoResult

(***************************************************************************)
(* clearCartAfterCheckout as a function of the outcomes rs of its clear    *)
(* attempts: the n-th pass of the loop of lines 257-275 and what follows.  *)
(***************************************************************************)
RECURSIVE ClearCartAfterCheckoutRun(_, _, _)
ClearCartAfterCheckoutRun(token, n, rs) ==
    IF ~LoopContinues(n) \/ rs = <<>> THEN ClearCartAfterCheckoutExhausted
    ELSE LET outcome == IF token = NoToken THEN ClearCartNoToken
                        ELSE ClearCartOnResponse(Head(rs))
         IN  IF outcome.result = ReturnBool("true")
             THEN ClearCartAfterCheckoutSuccess
             ELSE ClearCartAfterCheckoutRun(token, n + 1, Tail(rs))

(***************************************************************************)
(* The checkout page's handlers.                                           *)
(***************************************************************************)
\* lines 336-364: the page proper is rendered once the cart is loaded and
\* holds an item
Rendered == mounted = "yes" /\ ~loading /\ cart # <<>>

\* the sign-in card shown in every mode
AuthCardRenderedAlways == TRUE

\* line 398, 453, 504: the sign-in card and the two forms
AuthCardRendered == checkoutMode # "authenticated"
\* lines 579, 724: the shipping and payment forms
ShippingFormRendered == checkoutMode = "authenticated"
\* the Place Order button rendered in every mode
PlaceOrderRenderedAlways == TRUE

\* line 820: the Place Order button
PlaceOrderRendered == checkoutMode = "authenticated"
\* the button disabled for an empty cart only
PlaceOrderDisabledWhenEmpty == Len(cart) = 0

\* line 823
PlaceOrderDisabled == isProcessing \/ Len(cart) = 0
\* lines 487, 562: the submit buttons of the login and register forms
AuthSubmitDisabled == isAuthenticating

\* q cut to a whole number, towards 0 (a double of exponent 0 or more is
\* whole)
Truncated(q) ==
    IF q.x >= 0 THEN q ELSE Canonical(q.n, BigShr(q.m, -q.x)[1], 0)

\* |k * 10^j - |q||, scaled by 2^up * 10^down to a natural number
Scaled(m, twos, fives) == BigTimesFive(BigShl(m, twos), fives)
Distance(q, j, k, up, down) ==
    Apart(Scaled(<<k>>, up + down + j, down + j), Scaled(q.m, up + q.x + down, down))

\* the one-digit decimals k * 10^j about the size of q, whose value lies in
\* [2^(o-1), 2^o) for o the bits of q.m plus q.x (30103/100000 is log 2)
OrderLow(q)  == (((BigBits(q.m) + q.x) - 1) * 30103) \div 100000
OrderHigh(q) == ((BigBits(q.m) + q.x) * 30103) \div 100000 + 1
\* the double that the text of k * 10^j reads as, against |q|: -1, 0 or 1
Magnitude(q) == [q EXCEPT !.n = 1]
Against(d, q) == IF d.k = "inf" THEN 1 ELSE NumCmp(d, Magnitude(q))
ReadAgainst(q, j, k) == Against(DoubleOf(<<Digits[k + 1]>>, j), q)
\* each of them as <<j, k, how it reads against |q|>>
OneDigit(q) ==
    {<<d[1], d[2], ReadAgainst(q, d[1], d[2])>> :
        d \in (OrderLow(q)..OrderHigh(q)) \X (1..9)}
\* each decimal of S with its distance from |q|, and the nearest of them
Measured(q, S, down) ==
    {<<d, Distance(q, d[1], d[2], Most(0, -q.x), down)>> : d \in S}
Closest(M) == (CHOOSE p \in M : \A r \in M : BigCmp(p[2], r[2]) <= 0)[1]
NearestOf(q, S) == Closest(Measured(q, S, Most(0, -OrderLow(q))))
Greatest(S) ==
    CHOOSE d \in S : \A e \in S : e[1] < d[1] \/ (e[1] = d[1] /\ e[2] <= d[2])
\* the first digit of the text of q in exponent notation, from the
\* one-digit decimals `about` q.  The text is the shortest decimal that
\* reads back as q, the nearest to q of those: of one digit if such a
\* decimal reads back as q, and otherwise starting as q's exact value does,
\* with the greatest one-digit decimal below q.
FirstAmong(q, back, below) ==
    IF back = {} THEN Greatest(below)[2]
    ELSE IF Cardinality(back) = 1 THEN Greatest(back)[2]
    ELSE NearestOf(q, back)[2]
FirstOf(q, about) ==
    FirstAmong(q, {d \in about : d[3] = 0}, {d \in about : d[3] < 0})
FirstDigit(q) == FirstOf(q, OneDigit(q))

\* Number.parseInt of a number's text (line 326): the digits up to the
\* first character that is none.  The text of a number from 1e21 on, or
\* below 1e-6, is in exponent notation ("1.5e+21", "5e-7"), whose first
\* digit is all that parseInt reads; the text of NaN and of the infinities
\* holds no digit.
parseIntOf(q) ==
    IF q.k # "num" THEN NaN
    ELSE IF q.n = 0 THEN q
    ELSE IF NumCmp(Magnitude(q), Dec(1, 21)) >= 0
            \/ NumCmp(Magnitude(q), Dec(1, -6)) < 0
    THEN Whole(q.n * FirstDigit(q))
    ELSE Truncated(q)

\* x || 0
OrZero(x) == JsOr(x, Whole(0))

JsAdd(a, b) ==
    CASE a.k = "nan" \/ b.k = "nan" -> NaN
      [] a.k = "inf" /\ b.k = "inf" -> IF a.n = b.n THEN a ELSE NaN
      [] a.k = "inf" -> a
      [] b.k = "inf" -> b
      [] OTHER -> Plus(a, b)

\* calculateSafeTotal, lines 323-330
RECURSIVE calculateSafeTotal(_)
calculateSafeTotal(items) ==
    IF items = <<>> THEN Whole(0)
    ELSE LET item == items[Len(items)]
             price == OrZero(item.price)
             quantity == OrZero(parseIntOf(item.quantity))
             itemTotal == JsMul(price, quantity)
         IN  JsAdd(calculateSafeTotal(SubSeq(items, 1, Len(items) - 1)),
                   IF itemTotal.k = "nan" THEN Whole(0) ELSE itemTotal)

\* subtotal > 50000 ? 0 : 500, line 333
PageShipping(subtotal) ==
    IF (subtotal.k = "inf" /\ subtotal.n = 1)
       \/ (subtotal.k = "num" /\ NumCmp(subtotal, Whole(50000)) > 0)
    THEN Whole(0) ELSE Whole(500)

\* the request of lines 241-270, as JSON.stringify(orderData) of line 269
\* writes it: a number that is NaN or an infinity goes out as null
OrderRequest ==
    LET subtotal == calculateSafeTotal(cart) IN
    [auth |-> getAuthToken(session),
     items |-> [i \in 1..Len(cart) |->
                   [quantity |-> JsonStringifyNumber(cart[i].quantity),
                    price |-> JsonStringifyNumber(cart[i].price)]],
     shipping_info |-> shippingInfo,
     payment_method |-> "cod",
     subtotal |-> JsonStringifyNumber(subtotal),
     shipping_fee |-> JsonStringifyNumber(PageShipping(subtotal)),
     total |-> JsonStringifyNumber(JsAdd(subtotal, PageShipping(subtotal))),
     is_guest |-> FALSE]

\* the mount effect, lines 57-76, with fetchCart up to its await
Mount ==
    /\ mounted = "no"
    /\ mounted' = "yes"
    /\ IF getCurrentUser(session)
       THEN /\ checkoutMode' = "authenticated"
            /\ \E user \in Users :
                  shippingInfo' = PrefillFromUser(shippingInfo, user)
       ELSE /\ checkoutMode' = "login"
            /\ shippingInfo' = shippingInfo
    /\ pending' = [pending EXCEPT !.fetchCart =
                      IF getAuthToken(session) = NoToken THEN "resolved" ELSE "fetch"]
    /\ UNCHANGED <<session, libVars, route, loading, isProcessing,
                   isAuthenticating, cart, authInfo, orders, pageLog, toast>>

\* fetchCart from the return of getCart on, lines 80-91
FetchCartSettles ==
    /\ pending.fetchCart # "none"
    /\ \E items \in IF pending.fetchCart = "resolved"
                    THEN {GetCartNoToken.result.items}
                    ELSE {GetCartOnResponse(r).result.items : r \in PageListResponses} :
          /\ cart' = items
          /\ route' = IF Len(items) = 0 THEN "/cart" ELSE route
    /\ loading' = FALSE
    /\ pending' = [pending EXCEPT !.fetchCart = "none"]
    /\ UNCHANGED <<session, libVars, mounted, isProcessing, isAuthenticating,
                   checkoutMode, authInfo, shippingInfo, orders, pageLog, toast>>

\* the router leaves the checkout page after a push
Unmount ==
    /\ mounted = "yes" /\ route # "/checkout"
    /\ mounted' = "gone"
    /\ UNCHANGED <<session, libVars, route, loading, isProcessing,
                   isAuthenticating, checkoutMode, cart, authInfo, shippingInfo,
                   pending, orders, pageLog, toast>>

\* "Back to Cart" (line 387) and "Continue Shopping" (line 356)
UserNavigates ==
    /\ mounted = "yes" /\ ~loading
    /\ route' = IF Len(cart) = 0 THEN "/products" ELSE "/cart"
    /\ UNCHANGED <<session, libVars, mounted, loading, isProcessing,
                   isAuthenticating, checkoutMode, cart, authInfo, shippingInfo,
                   pending, orders, pageLog, toast>>

\* the Sign In / Create Account buttons and links, lines 411-434, 495, 570
SwitchMode ==
    /\ Rendered /\ AuthCardRendered
    /\ \E m \in {"login", "register"} : checkoutMode' = m
    /\ UNCHANGED <<session, libVars, route, mounted, loading, isProcessing,
                   isAuthenticating, cart, authInfo, shippingInfo, pending,
                   orders, pageLog, toast>>

\* handleAuthInputChange, lines 131-137 (the confirm field is in the
\* register form only)
EditAuthInfo ==
    /\ Rendered /\ AuthCardRendered
    /\ \E name \in (IF checkoutMode = "register"
                    THEN {"password", "confirmPassword"} ELSE {"password"}),
          value \in Passwords :
          authInfo' = [authInfo EXCEPT ![name] = value]
    /\ UNCHANGED <<session, libVars, route, mounted, loading, isProcessing,
                   isAuthenticating, checkoutMode, cart, shippingInfo, pending,
                   orders, pageLog, toast>>

\* the login form can be submitted: its inputs are `required` (lines 470,
\* 481), so the browser delivers no submit event while the password is
\* empty (the email, which the model does not hold, is filled in)
LoginFormValid == authInfo.password # <<>>

\* the same for the register form (lines 522, 533, 544, 556; the name and
\* the email are filled in)
RegisterFormValid == authInfo.password # <<>> /\ authInfo.confirmPassword # <<>>

\* handleLogin up to `await login(...)`, lines 139-144
HandleLogin ==
    /\ Rendered /\ checkoutMode = "login" /\ ~AuthSubmitDisabled
    /\ LoginFormValid
    /\ isAuthenticating' = TRUE
    /\ pending' = [pending EXCEPT !.auth = "login", !.handler = "login"]
    /\ UNCHANGED <<session, libVars, route, mounted, loading, isProcessing,
                   checkoutMode, cart, authInfo, shippingInfo, orders, pageLog,
                   toast>>

\* setCheckoutMode("authenticated") placed after the `if`, run whenever the
\* call did not reject
ModeAfterAuthUnguarded(outcome, mode) ==
    IF outcome # "rejects" THEN "authenticated" ELSE mode

\* lines 145-159, 179-193: setCheckoutMode("authenticated") inside
\* `if (result)` / `if (user)`; nothing else in the handler sets the mode
ModeAfterAuth(outcome, mode) ==
    IF outcome = "result" THEN "authenticated" ELSE mode

\* the title of the toast shown by the catch block of the handler, lines
\* 161 and 195
AuthFailTitle(handler) ==
    IF handler = "login" THEN "Login Failed" ELSE "Registration Failed"

\* handleLogin / handleRegister from the return of login / register up to
\* `await refreshCart()`, or to the end when there is no result
AuthSettles(which, failTitle) ==
    /\ pending.auth = which
    /\ \E outcome \in AuthOutcomes :
          /\ session' = SessionAfterAuth(session, outcome)
          /\ IF outcome = "result"
             THEN /\ toast' = "authSuccess"
                  /\ \E user \in Users :
                        shippingInfo' = PrefillFromUser(shippingInfo, user)
                  /\ pending' = [pending EXCEPT !.auth = "refreshCart"]
                  /\ isAuthenticating' = isAuthenticating
             ELSE /\ toast' = IF outcome = "rejects" THEN failTitle ELSE toast
                  /\ isAuthenticating' = FALSE
                  /\ pending' = [pending EXCEPT !.auth = "none",
                                                 !.handler = "none"]
                  /\ UNCHANGED shippingInfo
          /\ checkoutMode' = ModeAfterAuth(outcome, checkoutMode)
    /\ UNCHANGED <<libVars, route, mounted, loading, isProcessing, cart,
                   authInfo, orders, pageLog>>

LoginSettles == AuthSettles("login", AuthFailTitle("login"))

\* handleRegister up to `await register(...)`, lines 167-178
HandleRegister ==
    /\ Rendered /\ checkoutMode = "register" /\ ~AuthSubmitDisabled
    /\ RegisterFormValid
    /\ IF authInfo.password # authInfo.confirmPassword
       THEN /\ toast' = "Password Mismatch"
            /\ UNCHANGED <<isAuthenticating, pending>>
       ELSE /\ isAuthenticating' = TRUE
            /\ pending' = [pending EXCEPT !.auth = "register",
                                           !.handler = "register"]
            /\ toast' = toast
    /\ UNCHANGED <<session, libVars, route, mounted, loading, isProcessing,
                   checkoutMode, cart, authInfo, shippingInfo, orders, pageLog>>

RegisterSettles == AuthSettles("register", AuthFailTitle("register"))

\* the awaited refreshCart of lines 158, 192 settles: when it rejects, the
\* catch block of the handler that awaits it shows its toast; then the
\* finally block
AuthRefreshSettles ==
    /\ pending.auth = "refreshCart"
    /\ \E outcome \in RefreshOutcomes :
          toast' = IF outcome = "rejects" THEN AuthFailTitle(pending.handler)
                   ELSE toast
    /\ isAuthenticating' = FALSE
    /\ pending' = [pending EXCEPT !.auth = "none", !.handler = "none"]
    /\ UNCHANGED <<session, libVars, route, mounted, loading, isProcessing,
                   checkoutMode, cart, authInfo, shippingInfo, orders, pageLog>>

\* one change event of one field of the shipping form: handleInputChange,
\* lines 94-129, with the field's name and the text it now holds
ChangeShippingField ==
    /\ Rendered /\ ShippingFormRendered
    /\ \E i \in 1..Len(EditableFields) :
          \E value \in FieldTexts(EditableFields[i]) :
             shippingInfo' = handleInputChange(shippingInfo, EditableFields[i], value)
    /\ UNCHANGED <<session, libVars, route, mounted, loading, isProcessing,
                   isAuthenticating, checkoutMode, cart, authInfo, pending,
                   orders, pageLog, toast>>

\* handleSubmit with setIsProcessing(true) moved ahead of the validation
HandleSubmitProcessingFirst ==
    /\ Rendered /\ PlaceOrderRendered /\ ~PlaceOrderDisabled
    /\ Len(orders) < MaxOrders
    /\ isProcessing' = TRUE
    /\ IF ~validateForm(shippingInfo)
       THEN /\ toast' = "Validation Error"
            /\ UNCHANGED <<orders, pending, pageLog>>
       ELSE /\ orders' = Append(orders, OrderRequest)
            /\ pending' = [pending EXCEPT !.submit = "order"]
            /\ pageLog' = <<"POST /api/orders">>
            /\ toast' = toast
    /\ UNCHANGED <<session, libVars, route, mounted, loading, isAuthenticating,
                   checkoutMode, cart, authInfo, shippingInfo>>

\* handleSubmit up to `await fetch("/api/orders", ...)`, lines 231-270.  The
\* shipping form holds no submit button and several text fields, so its
\* onSubmit is reached from the Place Order button only.
HandleSubmit ==
    /\ Rendered /\ PlaceOrderRendered /\ ~PlaceOrderDisabled
    /\ Len(orders) < MaxOrders
    /\ IF ~validateForm(shippingInfo)
       THEN /\ toast' = "Validation Error"
            /\ UNCHANGED <<isProcessing, orders, pending, pageLog>>
       ELSE /\ isProcessing' = TRUE
            /\ orders' = Append(orders, OrderRequest)
            /\ pending' = [pending EXCEPT !.submit = "order"]
            /\ pageLog' = <<"POST /api/orders">>
            /\ toast' = toast
    /\ UNCHANGED <<session, libVars, route, mounted, loading, isAuthenticating,
                   checkoutMode, cart, authInfo, shippingInfo>>

\* the catch and finally blocks of handleSubmit, lines 291-297
SubmitFails ==
    /\ toast' = "Order Failed"
    /\ isProcessing' = FALSE
    /\ pending' = [pending EXCEPT !.submit = "none", !.order = "none"]

\* handleSubmit from the order response up to `await clearCartAfterCheckout()`,
\* lines 272-275 and 288-297
OrderSettles ==
    /\ pending.submit = "order"
    /\ \E r \in OrderResponses :
          IF Parses(r) /\ r.body = "object" /\ r.success = "true"
          THEN /\ pending' = [pending EXCEPT !.submit = "clear",
                                 !.order = IF HasData(r) THEN "data" ELSE "nodata"]
               /\ pageLog' = Append(pageLog, "clearCartAfterCheckout")
               /\ UNCHANGED <<toast, isProcessing>>
          ELSE SubmitFails /\ pageLog' = pageLog
    /\ UNCHANGED <<session, libVars, route, mounted, loading, isAuthenticating,
                   checkoutMode, cart, authInfo, shippingInfo, orders>>

\* handleSubmit from the return of clearCartAfterCheckout up to
\* `await refreshCart()` (line 277) or through lines 284-297
ClearSettles ==
    /\ pending.submit = "clear"
    /\ \E rs \in [1..maxAttempts -> PageClearResponses] :
          LET res == ClearCartAfterCheckoutRun(getAuthToken(session), 0, rs) IN
          IF res.kind = "throw"
          THEN SubmitFails /\ UNCHANGED <<pageLog, route>>
          ELSE IF res.bool = "true"
          THEN /\ pending' = [pending EXCEPT !.submit = "refreshCart"]
               /\ pageLog' = Append(pageLog, "cleared")
               /\ UNCHANGED <<toast, isProcessing, route>>
          ELSE IF pending.order = "data"
               THEN /\ toast' = "Order Placed"
                    /\ route' = "/order-success"
                    /\ pageLog' = pageLog \o <<"not cleared", "push /order-success">>
                    /\ isProcessing' = FALSE
                    /\ pending' = [pending EXCEPT !.submit = "none", !.order = "none"]
               ELSE /\ SubmitFails
                    /\ pageLog' = Append(pageLog, "not cleared")
                    /\ route' = route
    /\ UNCHANGED <<session, libVars, mounted, loading, isAuthenticating,
                   checkoutMode, cart, authInfo, shippingInfo, orders>>

\* handleSubmit from the awaited refreshCart on, lines 277-283 and 291-297
SubmitRefreshSettles ==
    /\ pending.submit = "refreshCart"
    /\ \E outcome \in RefreshOutcomes :
          IF outcome = "rejects"
          THEN SubmitFails /\ UNCHANGED <<pageLog, route>>
          ELSE IF pending.order = "data"
               THEN /\ toast' = "orderPlaced"
                    /\ route' = "/order-success"
                    /\ pageLog' = pageLog \o <<"orderPlaced", "push /order-success">>
                    /\ isProcessing' = FALSE
                    /\ pending' = [pending EXCEPT !.submit = "none", !.order = "none"]
               ELSE /\ SubmitFails
                    /\ pageLog' = Append(pageLog, "orderPlaced")
                    /\ route' = route
    /\ UNCHANGED <<session, libVars, mounted, loading, isAuthenticating,
                   checkoutMode, cart, authInfo, shippingInfo, orders>>

(***************************************************************************)
(* ProductApi.getProducts, src/lib/api.ts lines 72-139.  The body of the   *)
(* response is a bare array, an envelope object, the JSON null, or no JSON *)
(* at all; a product is an opaque value.                                   *)
(***************************************************************************)
Products == {"p1", "p2"}
ProductLists == ListsUpTo(Products, MaxItems)
GetProductsResponses ==
    { [net |-> "error", ok |-> FALSE, body |-> "empty", success |-> "undefined",
       data |-> NoData, message |-> FALSE, list |-> <<>>] }
    \cup [net : {"ok"}, ok : BOOLEAN, body : {"unparseable", "null"},
          success : {"undefined"}, data : {NoData}, message : {FALSE},
          list : {<<>>}]
    \cup [net : {"ok"}, ok : BOOLEAN, body : {"array"}, success : {"undefined"},
          data : {NoData}, message : {FALSE}, list : ProductLists]
    \cup [net : {"ok"}, ok : BOOLEAN, body : {"object"},
          success : {"true", "false", "undefined"},
          data : {NoData} \cup {ListData(l) : l \in ProductLists}
                 \cup {ObjectData(x) : x \in Products},
          message : {FALSE}, list : {<<>>}]

\* getProducts handing back a single data object as it is
GetProductsUnwrapped(r) ==
    IF r.net = "error" THEN Quiet(Throw("fetch failed"))
    ELSE IF ~r.ok THEN Quiet(Throw("HTTP error"))
    ELSE IF r.body = "unparseable" THEN Quiet(Throw("SyntaxError"))
    ELSE IF r.body = "null" THEN Quiet(Throw("TypeError"))
    ELSE IF r.body = "array" THEN Quiet(ReturnList(r.list))
    ELSE IF HasData(r)
         THEN IF r.data.kind = "list" THEN Quiet(ReturnList(r.data.items))
              ELSE Quiet(ReturnWhat("data object"))
         ELSE Quiet(ReturnWhat("response object"))

\* getProducts from the arrival of the response on, lines 117-138
GetProductsOnResponse(r) ==
    IF r.net = "error" THEN Quiet(Throw("fetch failed"))
    ELSE IF ~r.ok THEN Quiet(Throw("HTTP error"))
    ELSE IF r.body = "unparseable" THEN Quiet(Throw("SyntaxError"))
    ELSE IF r.body = "null" THEN Quiet(Throw("TypeError"))
    ELSE IF r.body = "array" THEN Quiet(ReturnList(r.list))
    ELSE IF r.success = "true" /\ HasData(r)
         THEN IF r.data.kind = "list" THEN Quiet(ReturnList(r.data.items))
              ELSE Quiet(ReturnList(<<r.data.items[1]>>))
    ELSE IF HasData(r)
         THEN IF r.data.kind = "list" THEN Quiet(ReturnList(r.data.items))
              ELSE Quiet(ReturnWhat("data object"))
         ELSE Quiet(ReturnWhat("response object"))

\* getProducts up to `await fetch(url, ...)`, lines 72-115: no token is read
CallGetProducts ==
    /\ Idle
    /\ Await("getProducts", Null, <<Request("GET", "/api/products", "", Null)>>)
    /\ UNCHANGED <<session, pageVars>>

GetProductsResponse ==
    /\ op = "getProducts" /\ pc = "fetch"
    /\ \E r \in GetProductsResponses : Resume(GetProductsOnResponse(r), r)
    /\ UNCHANGED <<session, pageVars>>

(***************************************************************************)
(* Spec: the client library under an arbitrary caller, one call at a time. *)
(***************************************************************************)
Init == session \in Sessions /\ LibInit /\ PageInit

Next ==
    \/ CallGetCart \/ GetCartResponse
    \/ CallAddToCart \/ AddToCartResponse
    \/ CallUpdateCartQuantity \/ UpdateCartQuantityResponse
    \/ CallRemoveFromCart \/ RemoveFromCartResponse
    \/ CallClearCart \/ ClearCartResponse
    \/ CallClearCartAfterCheckout \/ ClearAttemptResponse \/ RetryTimer
    \/ CallProductMutation \/ ProductMutationResponse
    \/ CallGetProducts \/ GetProductsResponse

Spec == Init /\ [][Next]_vars

(***************************************************************************)
(* Properties of the client library, checked under Spec.                   *)
(***************************************************************************)
Done(o) == op = o /\ pc = "done"
Entries(kind) == {i \in DOMAIN log : log[i].e = kind}
HasToken == getAuthToken(session) # NoToken
\* the response the running call received last (there is one)
LastResponseAt == CHOOSE i \in Entries("response") :
                      \A j \in Entries("response") : j <= i
LastResponse == log[LastResponseAt].resp[1]
Answered == Entries("response") # {}
EventAt(i, name) == log[i].e = "event" /\ log[i].name = name
Dispatched(name) == \E i \in DOMAIN log : EventAt(i, name)

\* C1: clearCartAfterCheckout never throws to its caller: whatever its clear
\* attempts do, the call goes on until it ends, and it ends by returning
\* true or false.
C1_NeverThrows ==
    op = "clearCartAfterCheckout" =>
        /\ pc = "done" => result \in {ReturnBool("true"), ReturnBool("false")}
        /\ pc # "done" => ENABLED (ClearAttemptResponse \/ RetryTimer)

\* the wrapper gave up after an attempt hit a network error
C1_Witness ==
    /\ Done("clearCartAfterCheckout") /\ result = ReturnBool("false")
    /\ \E i \in Entries("response") : log[i].resp[1].net = "error"
    /\ \E i \in Entries("response") : log[i].resp[1].net = "ok" /\ ~log[i].resp[1].ok

\* C2: one call of clearCartAfterCheckout makes at most 3 clear attempts, one
\* after the other; it returns true right after the first attempt that
\* succeeds, false after exactly 3 failed attempts; a pause precedes each
\* retry and none follows the last attempt.
C2_BoundedRetry ==
    op = "clearCartAfterCheckout" =>
        LET att == Entries("attempt")
            slp == Entries("sleep")
            succeeded(i) == log[i].e = "response"
                            /\ ClearCartOnResponse(log[i].resp[1]).result
                                   = ReturnBool("true")
        IN  /\ Cardinality(att) <= 3
            /\ Cardinality(att) = attempts + (IF pc = "sleep" THEN 0 ELSE
                                              IF pc = "done" /\ result = ReturnBool("false")
                                              THEN 0 ELSE 1)
            \* every attempt but the first directly follows a pause, and
            \* every pause directly precedes an attempt or is being taken
            /\ \A i \in att : i = 1 \/ log[i - 1].e = "sleep"
            /\ \A i \in slp : IF i = Len(log) THEN pc = "sleep"
                              ELSE log[i + 1].e = "attempt"
            /\ Cardinality(slp) <= 2
            \* one attempt at a time: a request is answered before the next
            /\ \A i \in Entries("request") :
                   IF i = Len(log) THEN pc = "fetch" ELSE log[i + 1].e = "response"
            \* nothing follows a successful attempt but its events
            /\ \A i \in DOMAIN log : succeeded(i) =>
                   /\ pc = "done" /\ result = ReturnBool("true")
                   /\ \A j \in DOMAIN log : j > i => log[j].e = "event"
            /\ (pc = "done" /\ result = ReturnBool("true")) =>
                   /\ \E i \in DOMAIN log : succeeded(i)
                   /\ Cardinality(slp) = Cardinality(att) - 1
            /\ (pc = "done" /\ result = ReturnBool("false")) =>
                   /\ Cardinality(att) = 3 /\ Cardinality(slp) = 2
                   /\ log[Len(log)].e # "sleep"

\* a clear that fails twice and then succeeds: true after 3 attempts, 2 pauses
C2_Witness ==
    /\ Done("clearCartAfterCheckout") /\ result = ReturnBool("true")
    /\ Cardinality(Entries("attempt")) = 3
    /\ Cardinality(Entries("sleep")) = 2

\* C3 as stated: each of add, updateQuantity, remove and clear whose backend
\* response reports success broadcasts cartUpdated before it returns, and
\* clear broadcasts cartCleared as well.
C3_AsStated ==
    (op \in CartMutations /\ pc = "done" /\ Answered /\ ReportsSuccess(LastResponse)) =>
        /\ Dispatched("cartUpdated")
        /\ op = "clearCart" => Dispatched("cartCleared")

\* C3, amended: updateQuantity and remove broadcast cartUpdated whenever the
\* response reports success; add does so when the response also carries
\* data, clear when the HTTP status is also OK, and clear then broadcasts
\* cartCleared after cartUpdated; each before the call returns.
C3_SuccessBroadcasts ==
    (op \in CartMutations /\ pc = "done" /\ Answered /\ ReportsSuccess(LastResponse)
     /\ (op = "addToCart" => HasData(LastResponse))
     /\ (op = "clearCart" => LastResponse.ok)) =>
        /\ \E i \in DOMAIN log : i > LastResponseAt /\ EventAt(i, "cartUpdated")
        /\ op = "clearCart" =>
              \E i, j \in DOMAIN log :
                  /\ LastResponseAt < i /\ i < j
                  /\ EventAt(i, "cartUpdated") /\ EventAt(j, "cartCleared")
        /\ result.kind = "return"

\* a remove that the backend confirmed, with its broadcast
C3_Witness ==
    /\ Done("removeFromCart") /\ Answered /\ ReportsSuccess(LastResponse)
    /\ Dispatched("cartUpdated")

\* the operations that clear the cart, alone or in the retry wrapper
ClearingOps == {"clearCart", "clearCartAfterCheckout"}

\* the response confirms the running mutation: received with an OK status,
\* its body reporting success
Confirms(r) == r.ok /\ ReportsSuccess(r)

\* C4 as stated: a cartUpdated or cartCleared notification is dispatched
\* only after the response of that mutation has been received and reports
\* success: a mutation that fails (no token, network error, non-OK status
\* or non-success response) dispatches no notification, and no
\* notification precedes the backend's confirmation.
C4_AsStated ==
    /\ \A i \in Entries("event") :
          \E j \in Entries("response") :
              /\ j < i
              /\ Confirms(log[j].resp[1])
              /\ \A k \in DOMAIN log : (j < k /\ k < i) => log[k].e = "event"
    /\ (op \in CartMutations \cup {"clearCartAfterCheckout"} /\ pc = "done"
        /\ (~Answered \/ ~Confirms(LastResponse))) => Entries("event") = {}

\* C4, amended: a cartUpdated or cartCleared notification is dispatched
\* only after the response of that mutation has been received and its body
\* reports success (with data for add, with an OK status for clear): the
\* last thing before the events of a call is such a response.  A mutation
\* that fails for want of a token, by a network error or by a response
\* whose body does not report success, and a clear answered with a non-OK
\* status, dispatches nothing, as does every call that ends in failure;
\* add, updateQuantity and remove do not look at the HTTP status.
C4_NotifyAfterConfirmation ==
    /\ \A i \in Entries("event") :
          \E j \in Entries("response") :
              /\ j < i
              /\ ReportsSuccess(log[j].resp[1])
              /\ op = "addToCart" => HasData(log[j].resp[1])
              /\ op \in ClearingOps => log[j].resp[1].ok
              /\ \A k \in DOMAIN log : (j < k /\ k < i) => log[k].e = "event"
    /\ (op \in CartMutations \cup {"clearCartAfterCheckout"} /\ pc = "done"
        /\ (result.kind = "throw" \/ result.bool # "true")
        /\ op # "addToCart") => Entries("event") = {}
    /\ (Done("addToCart") /\ result.kind = "throw") => Entries("event") = {}
    /\ (pc = "done" /\ ~Answered) => Entries("event") = {}
    /\ (op \in CartMutations \cup {"clearCartAfterCheckout"} /\ pc = "done"
        /\ Answered
        /\ (~ReportsSuccess(LastResponse) \/ (op \in ClearingOps /\ ~LastResponse.ok)))
           => Entries("event") = {}

\* an update answered with a non-OK status whose body reports success: the
\* broadcast follows the response
C4_Witness ==
    /\ Done("updateCartQuantity") /\ result = ReturnBool("true")
    /\ ReportsSuccess(LastResponse) /\ ~LastResponse.ok
    /\ log[Len(log)].e = "event" /\ log[Len(log) - 1].e = "response"

\* C5: without a token no Cart Client operation sends a request: list
\* returns an empty list, add, updateQuantity, remove and clear end with a
\* failure.
C5_NoTokenNoRequest ==
    (~HasToken /\ op \in CartOps) =>
        /\ Entries("request") = {}
        /\ pc = "done" \/ (op = "clearCartAfterCheckout" /\ pc = "sleep")
        /\ Done("getCart") => result = ReturnList(<<>>)
        /\ Done("addToCart") => result.kind = "throw"
        /\ (pc = "done" /\ op \in {"updateCartQuantity", "removeFromCart", "clearCart"})
              => result = ReturnBool("false")

\* updateQuantity called without a token
C5_Witness == ~HasToken /\ Done("updateCartQuantity") /\ log = <<>>

\* C6 as stated: without a token, each of cart add, updateQuantity, remove,
\* clear and product create, update, delete raises an
\* authentication-required failure to its caller.
C6_AsStated ==
    (~HasToken /\ op \in CartMutations \cup ProductMutations /\ pc = "done") =>
        result = Throw(AuthenticationRequired)

\* C6, amended: without a token, cart add and product create, update and
\* delete raise the authentication-required failure to the caller; cart
\* updateQuantity, remove and clear raise it inside their own try block,
\* catch it and return false.
C6_AuthRequired ==
    (~HasToken /\ pc = "done") =>
        /\ op \in {"addToCart"} \cup ProductMutations =>
              result = Throw(AuthenticationRequired)
        /\ op \in {"updateCartQuantity", "removeFromCart", "clearCart"} =>
              result = ReturnBool("false")

\* a product deletion attempted without a token
C6_Witness ==
    ~HasToken /\ Done("deleteProduct") /\ result = Throw(AuthenticationRequired)

\* C7 as stated: updateQuantity, remove and clear never throw, and a missing
\* token, a network failure, an unparseable body or a non-success response
\* each make them return false.
C7_AsStated ==
    (op \in {"updateCartQuantity", "removeFromCart", "clearCart"} /\ pc = "done") =>
        /\ result.kind = "return"
        /\ (~Answered \/ ~ReportsSuccess(LastResponse)) => result = ReturnBool("false")

\* C8: getCart never throws; with a token, a network failure, an unparseable
\* body, a non-success response, and a success response whose data is
\* missing or is no list each give an empty list.
C8_GetCartDegrades ==
    Done("getCart") =>
        /\ result.kind = "return" /\ result.what = "list"
        /\ (Answered /\ (LastResponse.net = "error" \/ ~Parses(LastResponse)
                         \/ ~ReportsSuccess(LastResponse)
                         \/ LastResponse.data.kind # "list"))
              => result.items = <<>>
        /\ (Answered /\ ReportsSuccess(LastResponse) /\ LastResponse.data.kind = "list")
              => Len(result.items) = Len(LastResponse.data.items)

\* a success response whose data is a single object, not a list
C8_Witness ==
    /\ Done("getCart") /\ HasToken /\ Answered
    /\ ReportsSuccess(LastResponse) /\ LastResponse.data.kind = "object"
    /\ result = ReturnList(<<>>)

(***************************************************************************)
(* SpecCheckout: one visit of the checkout page.                           *)
(***************************************************************************)
NextCheckout ==
    \/ Mount \/ FetchCartSettles \/ Unmount \/ UserNavigates
    \/ SwitchMode \/ EditAuthInfo
    \/ HandleLogin \/ LoginSettles
    \/ HandleRegister \/ RegisterSettles
    \/ AuthRefreshSettles
    \/ ChangeShippingField
    \/ HandleSubmit \/ OrderSettles \/ ClearSettles \/ SubmitRefreshSettles

SpecCheckout == Init /\ [][NextCheckout]_vars

(***************************************************************************)
(* Properties of the checkout page, checked under SpecCheckout.            *)
(***************************************************************************)
\* C9: checkoutMode becomes "authenticated" only at mount with a session
\* user, or when a pending login or register gave a result; a login or
\* register that fails or gives nothing, and a register with mismatched
\* passwords, leave checkoutMode as it was.
C9_AuthenticatedOnlyByAuth ==
    [][ /\ (checkoutMode' = "authenticated" /\ checkoutMode # "authenticated") =>
              \/ mounted = "no" /\ mounted' = "yes" /\ getCurrentUser(session)
              \/ /\ pending.auth \in {"login", "register"}
                 /\ pending'.auth = "refreshCart" /\ toast' = "authSuccess"
        /\ (pending.auth \in {"login", "register"} /\ pending'.auth = "none") =>
              checkoutMode' = checkoutMode
        /\ (toast' = "Password Mismatch" /\ toast # toast') =>
              checkoutMode' = checkoutMode /\ pending' = pending
        /\ (pending.auth = "none" /\ pending'.auth = "register") =>
              authInfo.password = authInfo.confirmPassword
      ]_vars

\* a login made from the login form gave a result
C9_Witness ==
    /\ checkoutMode = "authenticated" /\ pending.auth = "refreshCart"
    /\ toast = "authSuccess" /\ mounted = "yes"

\* C10: an order request is sent only while checkoutMode is
\* "authenticated"; in the login and register states the Place Order
\* control is not available and nothing the user does there posts an order.
C10_OrderOnlyWhenAuthenticated ==
    /\ [](checkoutMode \in {"login", "register"} =>
              (~ENABLED HandleSubmit /\ orders = <<>>))
    /\ [][Len(orders') > Len(orders) => checkoutMode = "authenticated"]_vars

\* an order went out after a sign-in on the page
C10_Witness ==
    /\ Len(orders) >= 1 /\ checkoutMode = "authenticated"
    /\ session = "full" /\ toast = "authSuccess" /\ pending.submit = "order"

\* the phone rule in the claims' words: exactly 11 decimal digits, the
\* first two of them "0" and "9"
ElevenDigitsFrom09(p) ==
    /\ Len(p) = 11
    /\ \A i \in 1..Len(p) : p[i] \in {"0", "1", "2", "3", "4", "5", "6", "7", "8", "9"}
    /\ p[1] = "0" /\ p[2] = "9"

\* a form the claims call invalid: a blank required field, an email off the
\* pattern, or a phone off the phone rule
FormInvalid(info) ==
    \/ \E i \in 1..Len(requiredFields) :
          \A k \in 1..Len(info[requiredFields[i]]) :
              info[requiredFields[i]][k] \in WhiteSpace
    \/ ~emailRegexTest(info.email)
    \/ ~ElevenDigitsFrom09(info.phone)

\* C11: when the shipping form is invalid (a blank or whitespace-only
\* field, an email off the pattern, an invalid phone), handleSubmit sends
\* no order request, starts no cart clearing, and leaves checkoutMode,
\* isProcessing and the cart as they were; it only shows the validation
\* toast.
C11_InvalidFormBlocksSubmit ==
    [][ (HandleSubmit /\ FormInvalid(shippingInfo)) =>
            /\ orders' = orders /\ pageLog' = pageLog /\ pending' = pending
            /\ cart' = cart /\ route' = route
            /\ checkoutMode' = checkoutMode /\ isProcessing' = isProcessing
            /\ toast' = "Validation Error"
      ]_vars

\* Place Order was pressed over a whitespace-only address
C11_Witness ==
    /\ toast = "Validation Error" /\ shippingInfo.address = <<" ", " ">>
    /\ checkoutMode = "authenticated" /\ ~isProcessing
    /\ orders = <<>> /\ pending.submit = "none"

\* phone texts handed to the validation
PhoneTexts ==
    { <<>>,
      <<"0", "9", "1", "2", "3", "4", "5", "6", "7", "8", "9">>,
      <<"9", "1", "2", "3", "4", "5", "6", "7", "8", "9">>,
      <<"0", "9", "1", "2", "3", "4", "5", "6", "7", "8">>,
      <<"0", "9", "1", "2", "3", "4", "5", "6", "7", "8", "9", "0">>,
      <<"1", "9", "1", "2", "3", "4", "5", "6", "7", "8", "9">>,
      <<"0", "0", "1", "2", "3", "4", "5", "6", "7", "8", "9">>,
      <<"9", "0", "1", "2", "3", "4", "5", "6", "7", "8", "9">>,
      <<"0", "9", "1", "2", "3", "4", "5", "6", "7", "8", "a">>,
      <<"0", "9", "1", "2", "-", "3", "4", "5", "6", "7", "8">>,
      <<"0", "9", "1", "2", "3", "4", "5", "6", "7", "8", " ">> }

\* C12: with the other fields valid, the validation accepts a phone exactly
\* when it is 11 decimal digits beginning with "09": "09123456789" passes,
\* "9123456789" and "0912345678" fail; and Place Order sends the order
\* exactly when the phone held by the form is such a value.
C12_PhoneRule ==
    /\ [](\A p \in PhoneTexts :
             validateForm([ValidEntry EXCEPT !.phone = p]) <=> ElevenDigitsFrom09(p))
    /\ [][ (HandleSubmit /\ ~FormInvalid([shippingInfo EXCEPT !.phone = ValidEntry.phone])) =>
              ((Len(orders') > Len(orders)) <=> ElevenDigitsFrom09(shippingInfo.phone))
        ]_vars

\* Place Order was refused for an 11-digit phone that does not begin "09"
C12_Witness ==
    /\ toast = "Validation Error"
    /\ Len(shippingInfo.phone) = 11 /\ shippingInfo.phone[1] = "9"
    /\ ~FormInvalid([shippingInfo EXCEPT !.phone = ValidEntry.phone])
    /\ orders = <<>>

\* C13 as stated: whenever the order request returned success, the
\* submission ends with clearCartAfterCheckout invoked, then the
\* 'orderPlaced' broadcast, then the navigation to the confirmation view.
C13_AsStated ==
    [][ (pending.submit \in {"clear", "refreshCart"} /\ pending'.submit = "none") =>
            /\ route' = "/order-success"
            /\ \E i, j, k \in DOMAIN pageLog' :
                  /\ i < j /\ j < k
                  /\ pageLog'[i] = "clearCartAfterCheckout"
                  /\ pageLog'[j] = "orderPlaced"
                  /\ pageLog'[k] = "push /order-success"
      ]_vars

(***************************************************************************)
(* The Order Proxy, src/app/api/orders/route.ts.  A handler run uses the   *)
(* call variables: op is the handler, arg the request, log its effects     *)
(* (the fetch to the backend, the backend's answer, the error caught),     *)
(* result the response it gives.  A body is text that is empty, text that  *)
(* is no JSON, or JSON text; JSON text is held as the value it denotes, so *)
(* two bodies are equal when they denote the same JSON value.              *)
(***************************************************************************)
NoHeader == [present |-> FALSE, value |-> ""]
Header(v) == [present |-> TRUE, value |-> v]
\* request.headers.get("authorization"): null, "" or the header's text
AuthHeaders == {NoHeader, Header(""), Header("Bearer tok")}
\* `!authHeader` / `if (authHeader)`: null and "" are falsy
HeaderTruthy(h) == h.present /\ h.value # ""

JsonNull == [json |-> "null", success |-> "undefined", message |-> ""]
JsonText == [json |-> "text", success |-> "undefined", message |-> ""]
JsonArray == [json |-> "array", success |-> "undefined", message |-> ""]
JsonObject(success, message) ==
    [json |-> "object", success |-> success, message |-> message]
JsonValues ==
    {JsonNull, JsonText, JsonArray}
    \cup {JsonObject(sc, m) : sc \in {"true", "false", "undefined"},
                              m \in {"", "Order created", "Unauthenticated."}}

EmptyBody == [raw |-> "empty", value |-> JsonNull]
NotJsonBody == [raw |-> "not json", value |-> JsonNull]
JsonBody(v) == [raw |-> "json", value |-> v]
Bodies == {EmptyBody, NotJsonBody} \cup {JsonBody(v) : v \in JsonValues}

\* what the order request carries: an order, or text the handler chokes on
OrderBodies ==
    {NotJsonBody, JsonBody(JsonNull), JsonBody(JsonText),
     JsonBody(JsonObject("undefined", ""))}

ProxyRequests ==
    [method : {"GET"}, header : AuthHeaders, body : {EmptyBody}]
    \cup [method : {"POST"}, header : AuthHeaders, body : OrderBodies]

BackendStatuses == {200, 201, 401, 422, 500}
\* the fetch to the backend rejects, or gives a status and a body
BackendAnswers ==
    { [net |-> "error", status |-> 0, body |-> EmptyBody] }
    \cup [net : {"ok"}, status : BackendStatuses, body : Bodies]

ProxyFetch(method, header, body) ==
    [e |-> "request", name |-> method, url |-> "/orders", header |-> header,
     body |-> body, resp |-> <<>>]
BackendAnswer(r) ==
    [e |-> "response", name |-> "", url |-> "", header |-> NoHeader,
     body |-> EmptyBody, resp |-> <<r>>]
Caught(error) ==
    [e |-> "error", name |-> error, url |-> "", header |-> NoHeader,
     body |-> EmptyBody, resp |-> <<>>]

\* NextResponse.json(data, { status })
NextResponseJson(data, status) ==
    [kind |-> "response", status |-> status, body |-> JsonBody(data)]

\* a catch block that hands the error's message to the client
ProxyCatchLeaks(error) ==
    Outcome(<<Caught(error)>>,
            NextResponseJson(JsonObject("false", error), 500))

\* lines 26-29 and 69-72: the catch block logs the error and answers 500
ProxyCatch(error) ==
    Outcome(<<Caught(error)>>,
            NextResponseJson(JsonObject("false", "Internal server error"), 500))

\* the 401 given with another status
GETWithoutHeaderForbidden ==
    Quiet(NextResponseJson(JsonObject("false", "Authentication required"), 403))

\* lines 10-12
GETWithoutHeader ==
    Quiet(NextResponseJson(JsonObject("false", "Authentication required"), 401))

\* `await response.json()` and the relay, lines 23-25
GETOnAnswer(r) ==
    IF r.net = "error" THEN ProxyCatch("fetch failed")
    ELSE IF r.body.raw # "json" THEN ProxyCatch("SyntaxError")
    ELSE Quiet(NextResponseJson(r.body.value, r.status))

\* lines 60-68: the log of lines 62-66 reads data.success and data.message
POSTOnAnswer(r) ==
    IF r.net = "error" THEN ProxyCatch("fetch failed")
    ELSE IF r.body.raw # "json" THEN ProxyCatch("SyntaxError")
    ELSE IF r.body.value.json = "null" THEN ProxyCatch("TypeError")
    ELSE Quiet(NextResponseJson(r.body.value, r.status))

\* lines 38-46: the Authorization header goes out when authHeader is truthy
POSTHeaders(authHeader) == IF HeaderTruthy(authHeader) THEN authHeader ELSE NoHeader

ProxyFinish(req, lg, outcome) ==
    /\ op' = req.method /\ arg' = req /\ attempts' = 0
    /\ log' = lg \o outcome.events
    /\ result' = outcome.result
    /\ pc' = "done"

ProxyAwait(req, request) ==
    /\ op' = req.method /\ arg' = req /\ attempts' = 0
    /\ log' = <<request>>
    /\ result' = NoResult
    /\ pc' = "fetch"

\* GET up to `await fetch(...)`, lines 5-21
CallGET ==
    /\ Idle
    /\ \E req \in ProxyRequests :
          /\ req.method = "GET"
          /\ IF ~HeaderTruthy(req.header)
             THEN ProxyFinish(req, <<>>, GETWithoutHeader)
             ELSE ProxyAwait(req, ProxyFetch("GET", req.header, EmptyBody))
    /\ UNCHANGED <<session, pageVars>>

\* GET from the backend's answer on, lines 23-29
GETAnswer ==
    /\ op = "GET" /\ pc = "fetch"
    /\ \E r \in BackendAnswers :
          ProxyFinish(arg, Append(log, BackendAnswer(r)), GETOnAnswer(r))
    /\ UNCHANGED <<session, pageVars>>

\* POST up to `await request.json()`, lines 32-35: the header is read, and
\* the handler waits for the request body with nothing sent
CallPOST ==
    /\ Idle
    /\ \E req \in ProxyRequests :
          /\ req.method = "POST"
          /\ op' = "POST" /\ arg' = req /\ attempts' = 0
          /\ log' = <<>>
          /\ result' = NoResult
          /\ pc' = "body"
    /\ UNCHANGED <<session, pageVars>>

\* POST from the request body on, up to `await fetch(...)`, lines 35-58:
\* request.json() rejects on a body that is no JSON, and the log of lines
\* 48-52 reads body.is_guest
POSTBody ==
    /\ op = "POST" /\ pc = "body"
    /\ IF arg.body.raw # "json"
       THEN ProxyFinish(arg, <<>>, ProxyCatch("SyntaxError"))
       ELSE IF arg.body.value.json = "null"
       THEN ProxyFinish(arg, <<>>, ProxyCatch("TypeError"))
       ELSE ProxyAwait(arg, ProxyFetch("POST", POSTHeaders(arg.header),
                                       JsonBody(arg.body.value)))
    /\ UNCHANGED <<session, pageVars>>

\* POST from the backend's answer on, lines 60-72
POSTAnswer ==
    /\ op = "POST" /\ pc = "fetch"
    /\ \E r \in BackendAnswers :
          ProxyFinish(arg, Append(log, BackendAnswer(r)), POSTOnAnswer(r))
    /\ UNCHANGED <<session, pageVars>>

NextProxy == CallGET \/ GETAnswer \/ CallPOST \/ POSTBody \/ POSTAnswer

SpecProxy == Init /\ [][NextProxy]_vars

(***************************************************************************)
(* Properties of the Order Proxy, checked under SpecProxy.                 *)
(***************************************************************************)
Handled(method) == op = method /\ pc = "done"
Fetches == {i \in DOMAIN log : log[i].e = "request"}
Answers == {i \in DOMAIN log : log[i].e = "response"}
Errors  == {i \in DOMAIN log : log[i].e = "error"}

\* C14: a GET without an authorization header is answered 401 with
\* {success:false, message:"Authentication required"}, and no request goes
\* to the backend.
C14_GetWithoutHeader ==
    /\ (Handled("GET") /\ ~arg.header.present) =>
          /\ result.status = 401
          /\ result.body.raw = "json"
          /\ result.body.value.json = "object"
          /\ result.body.value.success = "false"
          /\ result.body.value.message = "Authentication required"
          /\ Fetches = {}
    /\ (op = "GET" /\ ~arg.header.present) => pc = "done"

\* a GET without the header has been answered
C14_Witness ==
    /\ Handled("GET") /\ ~arg.header.present /\ result.status = 401 /\ log = <<>>

\* C15 as stated: a GET carrying an authorization header, and every POST,
\* relays the backend's status and JSON body unchanged, and the request
\* to the backend carries the authorization header exactly when the
\* incoming request has one.
C15_AsStated ==
    /\ ((Handled("GET") /\ arg.header.present) \/ Handled("POST")) =>
          \A i \in Answers :
              LET r == log[i].resp[1] IN
              (r.net = "ok" /\ r.body.raw = "json") =>
                  /\ result.status = r.status
                  /\ result.body = r.body
    /\ (op \in {"GET", "POST"}) =>
          \A i \in Fetches :
              /\ log[i].header.present = arg.header.present
              /\ arg.header.present => log[i].header = arg.header

\* C16: an internal failure of a handler (backend unreachable, backend body
\* not JSON, a POST body not JSON, or any other error caught) gives 500
\* with {success:false, message:"Internal server error"}, and the
\* response does not carry the error's own message.
C16_GenericFailure ==
    (Handled("GET") \/ Handled("POST")) =>
        LET failed ==
              \/ \E i \in Answers : log[i].resp[1].net = "error"
                                    \/ log[i].resp[1].body.raw # "json"
              \/ op = "POST" /\ arg.body.raw # "json"
              \/ Errors # {}
        IN  failed =>
              /\ Errors # {}
              /\ result.status = 500
              /\ result.body = JsonBody(JsonObject("false", "Internal server error"))
              /\ \A i \in Errors : result.body.value.message # log[i].name

\* a POST whose backend answer was no JSON has been answered 500
C16_Witness ==
    /\ Handled("POST") /\ result.status = 500
    /\ \E i \in Answers : log[i].resp[1].net = "ok"
                          /\ log[i].resp[1].body.raw = "not json"
    /\ \E i \in Errors : log[i].name = "SyntaxError"

(***************************************************************************)
(* The Cart Summary Calculator of src/lib/cart.ts, lines 286-336.  The     *)
(* item lists are drawn from three sets, so that every sum stays within    *)
(* the integers of the model checker.                                      *)
(***************************************************************************)
\* a * b, NaN in giving NaN out
JsTimes(a, b) == IF a.k = "nan" \/ b.k = "nan" THEN NaN ELSE JsMul(a, b)

\* a > b: false when either is NaN
JsGreater(a, b) ==
    CASE a.k = "nan" \/ b.k = "nan" -> FALSE
      [] a.k = "inf" -> a.n = 1 /\ ~(b.k = "inf" /\ b.n = 1)
      [] b.k = "inf" -> b.n = -1
      [] OTHER -> NumCmp(a, b) > 0

\* Math.max(0, x): NaN when x is NaN
MathMaxZero(x) == IF x.k = "nan" THEN NaN ELSE MathMax(Whole(0), x)

\* the argument of the calculator: a list of items, or something that is
\* no array
ItemList(l) == [list |-> TRUE, items |-> l]
NotAList == [list |-> FALSE, items |-> <<>>]

SummaryItems ==
    { [price |-> Whole(1000), quantity |-> Whole(2), total |-> Whole(0)],
      [price |-> Whole(25000), quantity |-> Whole(2), total |-> Whole(0)],
      [price |-> Str(<<"0", ".", "2", "5">>), quantity |-> Whole(1), total |-> Null],
      [price |-> Whole(-1000), quantity |-> Whole(1), total |-> Whole(0)],
      [price |-> Str(InfinityWord), quantity |-> Whole(0), total |-> Whole(0)],
      [price |-> Whole(0), quantity |-> Whole(0), total |-> Whole(60000)],
      [price |-> Str(<<"a", "b", "c">>), quantity |-> Undefined, total |-> NaN],
      [price |-> Whole(30000), quantity |-> Whole(1), total |-> Whole(700)],
      [price |-> Whole(1), quantity |-> Whole(1),
       total |-> Str(<<"-">> \o InfinityWord)],
      [price |-> Whole(100), quantity |-> Whole(5), total |-> Whole(0)] }
\* items whose amounts do not end at the hundredths, alone, with an
\* amount below a hundredth, and with one at the shipping threshold
FineItems ==
    { [price |-> Num(5), quantity |-> Dec(1, -1), total |-> Whole(0)],
      [price |-> Num(1299), quantity |-> Whole(1), total |-> Whole(0)] }
SmallItems ==
    FineItems \cup { [price |-> Whole(10), quantity |-> Whole(2),
                      total |-> Str(<<"0", ".", "0", "0", "4">>)] }
ThresholdItems ==
    FineItems \cup { [price |-> Whole(0), quantity |-> Whole(0),
                      total |-> Whole(50000)] }
SummaryInputs ==
    {NotAList}
    \cup {ItemList(l) : l \in ListsUpTo(SummaryItems, MaxItems)
                             \cup ListsUpTo(SmallItems, MaxItems)
                             \cup ListsUpTo(ThresholdItems, MaxItems)}

\* a count that adds up the quantities of the items
RECURSIVE SumOfQuantities(_)
SumOfQuantities(items) ==
    IF items = <<>> THEN Whole(0)
    ELSE JsAdd(safeNumber(Head(items).quantity), SumOfQuantities(Tail(items)))
getCartItemsCountByQuantity(cartItems) ==
    IF ~cartItems.list THEN Whole(0) ELSE SumOfQuantities(cartItems.items)

\* getCartItemsCount, lines 286-291
getCartItemsCount(cartItems) ==
    IF ~cartItems.list THEN Whole(0) ELSE Whole(Len(cartItems.items))

\* the reduce callback of lines 297-308, folded from the left
RECURSIVE ReduceTotal(_)
ReduceTotal(items) ==
    IF items = <<>> THEN Whole(0)
    ELSE LET item == items[Len(items)]
             fromTotal == safeNumber(item.total)
             itemTotal == IF fromTotal.k = "num" /\ fromTotal.n = 0
                          THEN JsMul(safeNumber(item.price), safeNumber(item.quantity))
                          ELSE fromTotal
         IN  JsAdd(ReduceTotal(SubSeq(items, 1, Len(items) - 1)), itemTotal)

\* getCartTotal, lines 294-309
getCartTotal(cartItems) ==
    IF ~cartItems.list THEN Whole(0) ELSE ReduceTotal(cartItems.items)

\* getCartSubtotal, lines 312-314
getCartSubtotal(cartItems) == getCartTotal(cartItems)

taxRate == Num(8)
shippingThreshold == Whole(50000)
shippingFee == Whole(500)

\* free shipping from the threshold on
ShippingFromThreshold(subtotal) ==
    IF JsGreater(subtotal, shippingThreshold) \/ subtotal = shippingThreshold
    THEN Whole(0) ELSE shippingFee

\* line 326
ShippingFor(subtotal) ==
    IF JsGreater(subtotal, shippingThreshold) THEN Whole(0) ELSE shippingFee

\* getCartSummary, lines 317-336
getCartSummary(cartItems) ==
    LET subtotal  == getCartSubtotal(cartItems)
        itemCount == getCartItemsCount(cartItems)
        tax       == JsTimes(subtotal, taxRate)
        shipping  == ShippingFor(subtotal)
        total     == JsAdd(JsAdd(subtotal, tax), shipping)
    IN  [kind |-> "summary",
         itemCount |-> itemCount,
         subtotal |-> MathMaxZero(subtotal),
         tax |-> MathMaxZero(tax),
         shipping |-> MathMaxZero(shipping),
         total |-> MathMaxZero(total)]

\* a call of getCartSummary
CallGetCartSummary ==
    /\ pc = "idle"
    /\ \E cartItems \in SummaryInputs :
          /\ op' = "getCartSummary" /\ pc' = "done"
          /\ arg' = cartItems /\ attempts' = 0 /\ log' = <<>>
          /\ result' = getCartSummary(cartItems)
    /\ UNCHANGED <<session, pageVars>>

\* a call of getCartItemsCount
CallGetCartItemsCount ==
    /\ pc = "idle"
    /\ \E cartItems \in SummaryInputs :
          /\ op' = "getCartItemsCount" /\ pc' = "done"
          /\ arg' = cartItems /\ attempts' = 0 /\ log' = <<>>
          /\ result' = [kind |-> "count", itemCount |-> getCartItemsCount(cartItems)]
    /\ UNCHANGED <<session, pageVars>>

\* values handed to safeNumber
SafeNumberInputs ==
    { Null, Undefined, NaN, Inf(1), Inf(-1), Whole(-3), Whole(0), Num(1250),
      Str(<<>>), Str(<<"a", "b", "c">>), Str(<<"1", "2", ".", "5">>),
      Str(<<"-", "3">>), Str(<<" ", "7">>), Str(<<"1", "2", "p", "x">>),
      Str(InfinityWord), Str(<<"-">> \o InfinityWord),
      Str(<<"1", "e", "3">>), Str(<<"2", ".", "5", "e", "1">>),
      Str(<<"2", "5", "E", "-", "1">>), Str(<<"5", "e">>),
      Str(<<"\r", "\f", "5">>), Str(<<"1", "e", "9", "9", "9">>),
      Str(<<"0", ".", "0", "0", "4">>), Dec(12345, -3),
      Str(<<"1", ".", "7", "9", "7", "6", "9", "3", "1", "3", "4", "9", "e",
            "3", "0", "8">>),
      Str(<<"1", "e", "-", "9", "9", "9">>) }

\* a call of safeNumber
CallSafeNumber ==
    /\ pc = "idle"
    /\ \E value \in SafeNumberInputs :
          /\ op' = "safeNumber" /\ pc' = "done"
          /\ arg' = value /\ attempts' = 0 /\ log' = <<>>
          /\ result' = [kind |-> "number", value |-> safeNumber(value)]
    /\ UNCHANGED <<session, pageVars>>

\* the caller has taken the value returned
CalcReturn ==
    /\ pc = "done" /\ op \in {"getCartSummary", "getCartItemsCount", "safeNumber"}
    /\ op' = "idle" /\ pc' = "idle" /\ arg' = Null /\ attempts' = 0
    /\ log' = <<>> /\ result' = NoResult
    /\ UNCHANGED <<session, pageVars>>

NextCalc ==
    CallGetCartSummary \/ CallGetCartItemsCount \/ CallSafeNumber \/ CalcReturn

SpecCalc == Init /\ [][NextCalc]_vars

(***************************************************************************)
(* Properties of the Cart Summary Calculator, checked under SpecCalc.      *)
(***************************************************************************)
Summarized == op = "getCartSummary" /\ pc = "done"

\* x >= 0 for a number x (NaN is not)
AtLeastZero(x) == (x.k = "num" /\ x.n >= 0) \/ (x.k = "inf" /\ x.n = 1)

\* x is 8% of y
EightPercentOf(x, y) ==
    \/ x.k = "num" /\ y.k = "num" /\ x = Times(y, Num(8))
    \/ x.k = "inf" /\ y.k = "inf" /\ x.n = y.n

\* x = a + b + c
SumOfThree(x, a, b, c) ==
    \/ /\ x.k = "num" /\ a.k = "num" /\ b.k = "num" /\ c.k = "num"
       /\ x = JsAdd(JsAdd(a, b), c)
    \/ /\ x.k = "inf" /\ x.n = 1 /\ {a.k, b.k, c.k} \subseteq {"num", "inf"}
       /\ \E y \in {a, b, c} : y.k = "inf"
       /\ \A y \in {a, b, c} : y.k = "inf" => y.n = 1

\* C17 as stated: for every cart the returned tax is 8% of the returned
\* subtotal and the returned total is the returned subtotal plus that tax
\* plus the returned shipping; for one item of price 1000, quantity 2,
\* total 0 the summary is 2000, 160, 500, 2660.
C17_AsStated ==
    Summarized =>
        /\ EightPercentOf(result.tax, result.subtotal)
        /\ SumOfThree(result.total, result.subtotal, result.tax, result.shipping)
        /\ (arg = ItemList(<<[price |-> Whole(1000), quantity |-> Whole(2),
                             total |-> Whole(0)]>>)) =>
              /\ result.subtotal = Whole(2000) /\ result.tax = Whole(160)
              /\ result.shipping = Whole(500) /\ result.total = Whole(2660)

\* the returned subtotal is above 50000
AboveThreshold(x) ==
    (x.k = "inf" /\ x.n = 1) \/ (x.k = "num" /\ NumCmp(x, Whole(50000)) > 0)

\* C18: the shipping returned by getCartSummary is 0 exactly when the
\* subtotal is strictly greater than 50000, and the flat fee 500 otherwise:
\* a subtotal of exactly 50000 pays 500.
C18_ShippingThreshold ==
    Summarized =>
        /\ result.shipping \in {Whole(0), Whole(500)}
        /\ (result.shipping = Whole(0)) <=> AboveThreshold(result.subtotal)

\* a cart worth exactly 50000 was summarized and pays the fee
C18_Witness ==
    /\ Summarized /\ result.subtotal = Whole(50000)
    /\ result.shipping = Whole(500) /\ arg.items # <<>>

\* the three fields of an item are non-negative once normalized
NonNegativeItem(item) ==
    /\ AtLeastZero(safeNumber(item.price))
    /\ AtLeastZero(safeNumber(item.quantity))
    /\ AtLeastZero(safeNumber(item.total))

\* the amount of an item: its normalized total when that is nonzero, and
\* its normalized price times its normalized quantity otherwise
ItemAmount(item) ==
    IF safeNumber(item.total) # Whole(0) THEN safeNumber(item.total)
    ELSE JsMul(safeNumber(item.price), safeNumber(item.quantity))

\* the sum of the amounts of the items, added up from the first item on
RECURSIVE SumOfItemAmounts(_)
SumOfItemAmounts(items) ==
    IF items = <<>> THEN Whole(0)
    ELSE JsAdd(SumOfItemAmounts(SubSeq(items, 1, Len(items) - 1)),
               ItemAmount(items[Len(items)]))

\* C19 as stated: for every cart whose items have non-negative price,
\* quantity and total, the subtotal returned by getCartSummary equals the
\* sum over the items of item.total when it is nonzero and price times
\* quantity otherwise, each field first passed through safeNumber.  (NaN is
\* no sum: it is equal to nothing.)
C19_AsStated ==
    (Summarized /\ arg.list /\ \A i \in DOMAIN arg.items : NonNegativeItem(arg.items[i])) =>
        /\ result.subtotal.k # "nan"
        /\ result.subtotal = SumOfItemAmounts(arg.items)

\* C20 as stated: every field returned by getCartSummary is at least 0,
\* whatever the input.
C20_AsStated ==
    Summarized =>
        /\ AtLeastZero(result.itemCount) /\ AtLeastZero(result.subtotal)
        /\ AtLeastZero(result.tax) /\ AtLeastZero(result.shipping)
        /\ AtLeastZero(result.total)

\* C21: getCartItemsCount, and the itemCount of getCartSummary, is the
\* number of line items of the list whatever their quantities (two items of
\* quantity 5 give 2), and 0 for an input that is no list.
C21_CountIsLength ==
    (op \in {"getCartItemsCount", "getCartSummary"} /\ pc = "done") =>
        /\ result.itemCount = Whole(IF arg.list THEN Len(arg.items) ELSE 0)
        /\ (arg.list /\ Len(arg.items) = 2
            /\ \A i \in 1..2 : arg.items[i].quantity = Whole(5)) =>
               result.itemCount = Whole(2)

\* two items of quantity 5 were counted
C21_Witness ==
    /\ op = "getCartItemsCount" /\ pc = "done"
    /\ arg.list /\ Len(arg.items) = 2
    /\ \A i \in 1..2 : arg.items[i].quantity = Whole(5)
    /\ result.itemCount = Whole(2)

\* a finite number
Finite(x) == x.k = "num"

\* C25 as stated: safeNumber returns a finite number for every input: 0
\* for null, undefined, NaN, "" and unparseable strings, the parsed value
\* for numeric strings ("12.5" gives 12.5), a number input unchanged (-3
\* gives -3).
C25_AsStated ==
    (op = "safeNumber" /\ pc = "done") =>
        /\ Finite(result.value)
        /\ arg \in {Null, Undefined, NaN, Str(<<>>), Str(<<"a", "b", "c">>)} =>
              result.value = Whole(0)
        /\ arg = Str(<<"1", "2", ".", "5">>) => result.value = Num(1250)
        /\ arg = Whole(-3) => result.value = Whole(-3)

(***************************************************************************)
(* Further properties of the client library, checked under Spec.           *)
(***************************************************************************)
\* at least 1
AtLeastOne(x) ==
    (x.k = "num" /\ NumCmp(x, Whole(1)) >= 0) \/ (x.k = "inf" /\ x.n = 1)

\* C22 as stated: every add and updateQuantity request sent to the backend
\* carries a quantity that is a number of at least 1, whatever quantity
\* the caller passed.
C22_AsStated ==
    op \in {"addToCart", "updateCartQuantity"} =>
        \A i \in Entries("request") : AtLeastOne(log[i].qty)

\* C23 as stated: every item returned by getCart or addToCart has a
\* quantity of at least 1 and a price of at least 0, whatever the backend
\* put in its response.
C23_AsStated ==
    ((Done("getCart") \/ Done("addToCart")) /\ result.kind = "return") =>
        \A i \in DOMAIN result.items :
            /\ AtLeastOne(result.items[i].quantity)
            /\ AtLeastZero(result.items[i].price)

\* the backend record supplies no explicit total: absent, null, zero or
\* text that is no number
NoExplicitTotal(t) ==
    \/ t.k \in {"undefined", "null", "nan"}
    \/ t.k = "num" /\ t.n = 0
    \/ t.k = "str" /\ parseFloat(t.s) \in {NaN, Whole(0)}

C26_ThreeShapes ==
    (Done("getProducts") /\ Answered /\ LastResponse.net = "ok" /\ LastResponse.ok) =>
        /\ LastResponse.body = "array" => result = ReturnList(LastResponse.list)
        /\ (LastResponse.body = "object" /\ LastResponse.success = "true") =>
              /\ LastResponse.data.kind = "list" =>
                    result = ReturnList(LastResponse.data.items)
              /\ LastResponse.data.kind = "object" =>
                    /\ result.kind = "return" /\ result.what = "list"
                    /\ Len(result.items) = 1
                    /\ result.items[1] = LastResponse.data.items[1]

\* a single product object came back wrapped in a list
C26_Witness ==
    /\ Done("getProducts") /\ Answered /\ LastResponse.ok
    /\ LastResponse.body = "object" /\ LastResponse.success = "true"
    /\ LastResponse.data.kind = "object"
    /\ result = ReturnList(<<"p1">>)

\* C27: no step of a Cart Client or Product Client operation creates,
\* changes or removes the stored session, so the token read from it stays
\* what it was.
C27_SessionUntouched ==
    [][session' = session /\ getAuthToken(session') = getAuthToken(session)]_vars

\* a clear that succeeded and left the session with its token in place
C27_Witness ==
    /\ Done("clearCart") /\ result = ReturnBool("true")
    /\ Dispatched("cartCleared") /\ session = "tokenOnly"

(***************************************************************************)
(* Further properties of the checkout page, checked under SpecCheckout.    *)
(***************************************************************************)
\* C28 as stated, in the step it rests on: a user who opened checkout
\* without a session (no user and no token stored, the mount-time cart
\* fetch settled) can log in or register on the page, which is what leads
\* on to the authenticated state and the order.
C28_AsStated ==
    (session \in {"absent", "malformed"} /\ mounted = "yes"
     /\ pending.fetchCart = "none") =>
        ENABLED (HandleLogin \/ HandleRegister \/ SwitchMode)

\* C29: at most one order submission is in flight: while isProcessing is
\* true the Place Order control is disabled and no order request goes out,
\* isProcessing is true exactly from the start of a submission to its end,
\* and so it is false again after every submission.
C29_OneSubmissionInFlight ==
    /\ [](isProcessing => (PlaceOrderDisabled /\ ~ENABLED HandleSubmit))
    /\ [](isProcessing <=> pending.submit # "none")
    /\ [][Len(orders') > Len(orders) =>
              (~isProcessing /\ pending.submit = "none" /\ isProcessing')]_vars

\* a second submission is under way after the first one failed
C29_Witness ==
    /\ Len(orders) = 2 /\ isProcessing /\ PlaceOrderDisabled
    /\ toast = "Order Failed" /\ pending.submit = "order"

\* C30: 'authenticated' is absorbing: no step takes checkoutMode from
\* 'authenticated' to another value and the mode buttons are not there
\* then; while not authenticated the rendered page lets the user switch
\* between 'login' and 'register'.
C30_AuthenticatedAbsorbing ==
    /\ [][checkoutMode = "authenticated" => checkoutMode' = "authenticated"]_vars
    /\ [](checkoutMode = "authenticated" => ~ENABLED SwitchMode)
    /\ []((Rendered /\ checkoutMode # "authenticated") => ENABLED SwitchMode)

\* still authenticated after a submission that failed
C30_Witness ==
    /\ checkoutMode = "authenticated" /\ toast = "Order Failed"
    /\ Len(orders) = 1 /\ pending.submit = "none" /\ ~isProcessing

====
